---- MODULE Spec2Model ----
(***************************************************************************)
(* LaunchKit documentation site: the Starlight navigation tree and the     *)
(* content collection it refers to, and the route handlers and components  *)
(* that the guides and the API reference give as code.                     *)
(***************************************************************************)
EXTENDS FiniteSets, Integers, Sequences, TLC

VARIABLES
    \* ---- documentation site (astro.config.mjs, src/content/docs) ----
    part002Path,    \* where the third unnamed content file lives
    sitePhase,      \* "docs" | "sidebar" | "links" | "done"
    loaded,         \* content entries loaded so far, in order
    stack,          \* sidebar entries still to visit (preorder walk)
    visited,        \* sidebar entries visited so far, in order
    linkPos,        \* number of internal links checked so far
    brokenLinks,    \* hrefs that resolved to no route
    \* ---- Stripe: tables, webhook handlers, checkout routes ----
    app,            \* whose code runs: "reference" (API reference), "guide" (payments guide), "database" (database guide)
    profiles,       \* public.profiles: id -> row
    subscriptions,  \* public.subscriptions: stripe_subscription_id -> row, or Null
    lastApplied,    \* per profile: the last access-changing event whose update the database applied to its row
    lastCheckout,   \* per profile: customer and price of the last checkout session retrieved and written to its row
    request,        \* the last request handled
    response,       \* its response
    branch,         \* the switch branch the last webhook event reached
    dbOps,          \* database reads and writes issued by the last request, in order
    stripeCalls,    \* Stripe API calls issued by the last request, in order
    thrown,         \* whether the try block of the last request threw
    userSubscription, \* the last getUserSubscription call: its userId and what it returned
    \* ---- lead routes ----
    leadApp,        \* whose lead code runs: "reference", "emails", "support" or "database"
    leads,          \* public.leads: the emails of its rows, in insertion order
    leadRequest,    \* the last request handled
    leadResponse,   \* its response
    leadEffects,    \* the calls the last request made, in order, each with its outcome
    \* ---- theme toggle ----
    theme,          \* next-themes' current theme
    initialTheme,   \* the theme when the components mounted
    history,        \* the clicks so far, in order: the control clicked and the theme it set
    \* ---- sendEmailWithRetry (libs/email-with-retry.ts) ----
    maxRetries,     \* the argument of the call
    attempt,        \* the loop variable
    retryPc,        \* "calling" | "waiting" | "returned" | "thrown"
    retryLog,       \* the sendEmail calls and the waits so far, in order
    retryResult,    \* what the call returned or threw
    \* ---- POST /api/email/test ----
    nodeEnv,        \* process.env.NODE_ENV
    testRequest,    \* the body of the last request
    testResponse,   \* its response
    testSent,       \* the emails the last request sent, in order, each with its outcome
    \* ---- email rate limiter (libs/email-rate-limiter.ts) ----
    emailQueue,     \* the email functions queued and not yet shifted, in order
    isProcessing,   \* the module's flag
    loops,          \* the processQueue calls that have not returned: where each one awaits
    queued,         \* the number of queueEmail calls so far; the n-th call passes function n
    queueLog,       \* starts and ends of email functions and elapsed waits, in order
    \* ---- auth.users and public.profiles under row level security ----
    authUsers,      \* auth.users: the ids of the existing users
    publicProfiles, \* public.profiles: id -> row
    rlsRequest,     \* the last statement issued, with the auth.uid() it was issued as
    rlsResult,      \* what the statement returned
    rlsBefore,      \* public.profiles before the statement
    \* ---- withErrorHandler (libs/api-handler.ts) ----
    wrapped,        \* the calls of a wrapped handler so far: what the handler did, what the wrapper did
    \* ---- useErrorHandler (hooks/useErrorHandler.ts) ----
    isLoading,      \* the hook's state
    hookError,      \* the hook's state
    pending,        \* the handleAsync calls whose asyncFn has not settled
    calls,          \* the number of handleAsync calls so far
    hookLog,        \* how the settled calls ended, in order
    \* ---- ProtectedPage ----
    pageRequests    \* the requests of the page so far: the session found and what was produced

siteVars == <<part002Path, sitePhase, loaded, stack, visited, linkPos, brokenLinks>>
stripeVars == <<app, profiles, subscriptions, lastApplied, lastCheckout, request, response, branch, dbOps, stripeCalls, thrown, userSubscription>>
leadVars == <<leadApp, leads, leadRequest, leadResponse, leadEffects>>
themeVars == <<theme, initialTheme, history>>
retryVars == <<maxRetries, attempt, retryPc, retryLog, retryResult>>
testVars == <<nodeEnv, testRequest, testResponse, testSent>>
queueVars == <<emailQueue, isProcessing, loops, queued, queueLog>>
authVars == <<authUsers, publicProfiles, rlsRequest, rlsResult, rlsBefore>>
mailVars == <<retryVars, testVars, queueVars>>
wrapVars == <<wrapped>>
hookVars == <<isLoading, hookError, pending, calls, hookLog>>
pageVars == <<pageRequests>>
guardVars == <<wrapVars, hookVars, pageVars>>
vars == <<siteVars, stripeVars, leadVars, themeVars, mailVars, authVars, guardVars>>

Null == "null"
Undefined == "undefined"

(***************************************************************************)
(* The documentation site                                                  *)
(***************************************************************************)

\* A content file: its path under src/content/docs and its front-matter.
File(dir, base, ext, title, description) ==
    [dir |-> dir, base |-> base, ext |-> ext,
     title |-> title, description |-> description]

NamedDocs == <<
    File("guides", "authentication", "md", "User Authentication",
         "Set up user authentication with Supabase Auth."),
    File("guides", "customer-support", "md", "Customer Support",
         "Set up customer support with chat integration and help systems"),
    File("guides", "dark-mode", "md", "Dark Mode Implementation",
         "Complete guide to implementing dark mode with next-themes and shadcn/ui components."),
    File("guides", "deployment", "mdx", "Deployment",
         "Deploy your LaunchKit app to production."),
    File("guides", "emails", "mdx", "Email Integration",
         "Send transactional emails and manage email marketing with LaunchKit using Resend"),
    File("guides", "getting-started", "mdx", "Get Started",
         "Get your LaunchKit project up and running in minutes."),
    File("guides", "ship-in-5-minutes", "md", "Ship in 5 Minutes",
         "Get your startup in front of customers in 5 minutes."),
    File("reference", "api", "md", "API Reference",
         "API endpoints and utilities for LaunchKit.")
>>

\* The two unnamed files whose titles are the sidebar labels 'Database' and
\* 'Payments'; the README lists them as guides/database.mdx and guides/payments.md.
\* The database guide with its description left out of the front-matter.
DatabaseDocWithoutDescription ==
    File("guides", "database", "mdx", "Database", "")

DatabaseDoc ==
    File("guides", "database", "mdx", "Database",
         "Set up and manage your PostgreSQL database with Supabase.")

PaymentsDoc ==
    File("guides", "payments", "md", "Payments",
         "Set up Stripe payments and subscriptions in LaunchKit.")

\* The third unnamed file repeats the title of guides/authentication.md; its path
\* is not known, so it is one of the paths the README lists that no other file
\* takes, or a path the README does not list.
Part002Paths == {
    <<"guides", "error-handling", "md">>,
    <<"guides", "seo", "md">>,
    <<"reference", "components", "md">>,
    <<"guides", "user-authentication", "md">>
}

Part002Doc(path) ==
    File(path[1], path[2], path[3], "User Authentication",
         "Set up user authentication with Supabase Auth.")

ContentDocs(path) == NamedDocs \o <<DatabaseDoc, PaymentsDoc, Part002Doc(path)>>

\* Starlight: a file is exposed as a route by its path under src/content/docs,
\* without the extension.
Slug(f) == f.dir \o "/" \o f.base

Route(slug) == "/" \o slug \o "/"

Slugs(docs) == { Slug(docs[i]) : i \in 1..Len(docs) }

GettingStartedGroup ==
    [label |-> "Getting Started", items |-> <<
        [label |-> "Get Started", slug |-> "guides/getting-started"],
        [label |-> "Ship in 5 Minutes", slug |-> "guides/ship-in-5-minutes"] >>]

CoreFeaturesGroup ==
    [label |-> "Core Features", items |-> <<
        [label |-> "Authentication", slug |-> "guides/authentication"],
        [label |-> "Database", slug |-> "guides/database"],
        [label |-> "Payments", slug |-> "guides/payments"],
        [label |-> "Email Integration", slug |-> "guides/emails"],
        [label |-> "SEO & Marketing", slug |-> "guides/seo"],
        [label |-> "Deployment", slug |-> "guides/deployment"] >>]

SupportQualityGroup ==
    [label |-> "Support & Quality", items |-> <<
        [label |-> "Customer Support", slug |-> "guides/customer-support"],
        [label |-> "Error Handling", slug |-> "guides/error-handling"] >>]

\* The Reference group with an entry that names no page.
ReferenceGroupWithoutSlug ==
    [label |-> "Reference", items |-> <<
        [label |-> "Components"],
        [label |-> "API Reference", slug |-> "reference/api"] >>]

ReferenceGroup ==
    [label |-> "Reference", items |-> <<
        [label |-> "Components", slug |-> "reference/components"],
        [label |-> "API Reference", slug |-> "reference/api"] >>]

sidebar == <<GettingStartedGroup, CoreFeaturesGroup, SupportQualityGroup, ReferenceGroup>>

\* The entries of a list of entries and of their groups, in the order written.
RECURSIVE Flatten(_)
Flatten(entries) ==
    IF entries = <<>> THEN <<>>
    ELSE LET e == Head(entries) IN
         <<e>> \o (IF "items" \in DOMAIN e THEN Flatten(e.items) ELSE <<>>)
               \o Flatten(Tail(entries))

IsGroup(e) == "items" \in DOMAIN e
IsLeaf(e) == "slug" \in DOMAIN e

\* The internal links of the content pages and the README, in file order.
Link(file, line, href) == [file |-> file, line |-> line, href |-> href]

InternalLinks == <<
    Link("guides/getting-started.mdx", 12, "/guides/ship-in-5-minutes"),
    Link("guides/getting-started.mdx", 280, "/guides/database"),
    Link("guides/getting-started.mdx", 281, "/guides/payments"),
    Link("guides/getting-started.mdx", 282, "/guides/authentication"),
    Link("guides/getting-started.mdx", 283, "/guides/deployment"),
    Link("guides/getting-started.mdx", 285, "/guides/ship-in-5-minutes"),
    Link("guides/ship-in-5-minutes.md", 12, "/guides/getting-started"),
    Link("guides/ship-in-5-minutes.md", 47, "/reference/components"),
    Link("guides/ship-in-5-minutes.md", 49, "/guides/database"),
    Link("guides/ship-in-5-minutes.md", 63, "/guides/deployment"),
    Link("README.md", 57, "/guides/getting-started/"),
    Link("README.md", 57, "/guides/ship-in-5-minutes/")
>>

\* A link reaches a page when it is the page's route, with or without the
\* trailing slash.
LinkResolves(href, slugs) ==
    \E s \in slugs : href = Route(s) \/ href \o "/" = Route(s)

SiteInit ==
    /\ part002Path \in Part002Paths
    /\ sitePhase = "docs"
    /\ loaded = <<>>
    /\ stack = sidebar
    /\ visited = <<>>
    /\ linkPos = 0
    /\ brokenLinks = {}

SiteIdle ==
    /\ part002Path = <<"guides", "user-authentication", "md">>
    /\ sitePhase = "done"
    /\ loaded = <<>>
    /\ stack = <<>>
    /\ visited = <<>>
    /\ linkPos = 0
    /\ brokenLinks = {}

\* The content collection is read, one file at a time.
LoadDoc ==
    /\ sitePhase = "docs"
    /\ LET docs == ContentDocs(part002Path) IN
        /\ loaded' = Append(loaded, docs[Len(loaded) + 1])
        /\ sitePhase' = IF Len(loaded) + 1 = Len(docs) THEN "sidebar" ELSE "docs"
    /\ UNCHANGED <<part002Path, stack, visited, linkPos, brokenLinks>>
    /\ UNCHANGED <<stripeVars, leadVars, themeVars, mailVars, authVars, guardVars>>

\* The sidebar is walked in order; a group's items are visited before the
\* entries that follow the group.
VisitEntry ==
    /\ sitePhase = "sidebar"
    /\ stack # <<>>
    /\ LET e == Head(stack)
           rest == IF IsGroup(e) THEN e.items \o Tail(stack) ELSE Tail(stack) IN
        /\ visited' = Append(visited, e)
        /\ stack' = rest
        /\ sitePhase' = IF rest = <<>> THEN "links" ELSE "sidebar"
    /\ UNCHANGED <<part002Path, loaded, linkPos, brokenLinks>>
    /\ UNCHANGED <<stripeVars, leadVars, themeVars, mailVars, authVars, guardVars>>

\* The internal links are followed, one at a time.
CheckLink ==
    /\ sitePhase = "links"
    /\ linkPos < Len(InternalLinks)
    /\ LET l == InternalLinks[linkPos + 1] IN
        /\ brokenLinks' = IF LinkResolves(l.href, Slugs(loaded))
                          THEN brokenLinks ELSE brokenLinks \cup {l.href}
        /\ linkPos' = linkPos + 1
        /\ sitePhase' = IF linkPos + 1 = Len(InternalLinks) THEN "done" ELSE "links"
    /\ UNCHANGED <<part002Path, loaded, stack, visited>>
    /\ UNCHANGED <<stripeVars, leadVars, themeVars, mailVars, authVars, guardVars>>

SiteNext == LoadDoc \/ VisitEntry \/ CheckLink

(***************************************************************************)
(* Stripe: the profiles and subscriptions tables, the two webhook handlers *)
(* and the two checkout routes                                             *)
(***************************************************************************)

Users == {"u1", "u2"}
Customers == {"cus_1", "cus_2"}
Prices == {"price_1"}
SubscriptionIds == {"sub_1"}
SubscriptionStatuses == {"active", "past_due"}

\* The event types the API reference lists under 'Key Events Handled'.
KeyEventsHandled == {
    "checkout.session.completed",
    "checkout.session.expired",
    "customer.subscription.updated",
    "customer.subscription.deleted",
    "invoice.paid",
    "invoice.payment_failed"
}

\* A row of public.profiles as the signup trigger creates it: has_access
\* DEFAULT false, the Stripe columns NULL.
NewProfile ==
    [customer_id |-> Null, price_id |-> Null, has_access |-> FALSE,
     stripe_customer_id |-> Null]

\* SQL equality: NULL equals nothing.
SqlEq(a, b) == a # Null /\ b # Null /\ a = b

\* The TEXT columns a handler may pass an undefined value for.
TextColumns == {"customer_id", "price_id", "stripe_customer_id"}

\* supabase-js sends the patch as JSON: a key whose value is undefined is dropped.
Patched(row, patch) ==
    [k \in DOMAIN row |->
        IF k \notin DOMAIN patch THEN row[k]
        ELSE IF k \in TextColumns /\ patch[k] = Undefined THEN row[k]
        ELSE patch[k]]

\* supabase.from('profiles').update(patch).eq(col, val); a failed call changes
\* no row and returns its error, which no handler reads.
UpdateProfiles(rows, ok, col, val, patch) ==
    [u \in DOMAIN rows |->
        IF ok /\ SqlEq(IF col = "id" THEN u ELSE rows[u][col], val)
        THEN Patched(rows[u], patch) ELSE rows[u]]

Op(kind, table) == [op |-> kind, table |-> table]

\* A call to Stripe, Resend or the database, with whether it succeeded.
Call(name, ok) == [call |-> name, ok |-> ok]

Json(status, body) == [status |-> status, body |-> body]

\* The body {}.
EmptyBody == <<>>

\* The events Stripe delivers: a checkout session carries the user and the
\* customer, a subscription its id, customer, status and price, an invoice its
\* customer. A price of Null stands for a line item without a price.
StripeEvent(type, user, customer, price, subscription, status) ==
    [type |-> type, client_reference_id |-> user, customer |-> customer,
     price |-> price, subscription |-> subscription, status |-> status]

StripeEvents ==
    { StripeEvent("checkout.session.completed", u, c, p, Null, Null) :
        u \in Users \cup {Null}, c \in Customers \cup {Null}, p \in Prices \cup {Null} }
    \cup
    { StripeEvent(t, Null, c, p, s, st) :
        t \in {"customer.subscription.created", "customer.subscription.updated",
               "customer.subscription.deleted"},
        c \in Customers, p \in Prices \cup {Null}, s \in SubscriptionIds,
        st \in SubscriptionStatuses }
    \cup
    { StripeEvent(t, Null, c, Null, Null, Null) :
        t \in {"invoice.paid", "invoice.payment_failed"}, c \in Customers \cup {Null} }
    \cup
    { StripeEvent(t, Null, Null, Null, Null, Null) :
        t \in {"checkout.session.expired", "payment_intent.succeeded"} }

\* stripe.webhooks.constructEvent(body, signature, webhookSecret): the event, or
\* an exception when the signature does not match the payload.
\* constructEvent that accepts every payload.
constructEventUnchecked(signatureValid, event) == [ok |-> TRUE, event |-> event]

constructEvent(signatureValid, event) ==
    IF signatureValid THEN [ok |-> TRUE, event |-> event] ELSE [ok |-> FALSE]

\* A request to a webhook route: whether its signature matches its payload,
\* and the event the payload holds.
WebhookRequest(signatureValid, event) ==
    [route |-> "/api/webhook/stripe", signatureValid |-> signatureValid,
     type |-> event.type, event |-> event]

\* findCheckoutSession(sessionId): the session with its line items, or null when
\* the retrieval fails.
findCheckoutSession(event, retrieved) ==
    IF retrieved
    THEN [found |-> TRUE, customer |-> event.customer, price |-> event.price]
    ELSE [found |-> FALSE]

\* session?.customer
customerOf(session) == IF session.found THEN session.customer ELSE Undefined

\* session?.line_items?.data[0]?.price.id : undefined without a session, a
\* TypeError when the line item has no price.
priceOf(session) ==
    IF ~session.found THEN Undefined
    ELSE IF session.price = Null THEN "throws" ELSE session.price

\* The switch of the API reference's handler: the case an event type reaches.
ReferenceBranch(type) ==
    IF type \in {"checkout.session.completed", "customer.subscription.deleted", "invoice.paid"}
    THEN type ELSE "default"

\* The update with the invoice.paid case revoking access.
ReferenceUpdateRevokingOnPaid(event, session) ==
    CASE ReferenceBranch(event.type) = "checkout.session.completed" ->
            <<"id", event.client_reference_id,
              [customer_id |-> customerOf(session), price_id |-> priceOf(session),
               has_access |-> TRUE]>>
      [] ReferenceBranch(event.type) = "customer.subscription.deleted" ->
            <<"customer_id", event.customer, [has_access |-> FALSE]>>
      [] ReferenceBranch(event.type) = "invoice.paid" ->
            <<"customer_id", event.customer, [has_access |-> FALSE]>>

\* The update a case of the API reference's handler sends: <<column, value, patch>>.
ReferenceUpdate(event, session) ==
    CASE ReferenceBranch(event.type) = "checkout.session.completed" ->
            <<"id", event.client_reference_id,
              [customer_id |-> customerOf(session), price_id |-> priceOf(session),
               has_access |-> TRUE]>>
      [] ReferenceBranch(event.type) = "customer.subscription.deleted" ->
            <<"customer_id", event.customer, [has_access |-> FALSE]>>
      [] ReferenceBranch(event.type) = "invoice.paid" ->
            <<"customer_id", event.customer, [has_access |-> TRUE]>>

\* Whether a case throws before its update is sent.
ReferenceThrows(event, session) ==
    /\ ReferenceBranch(event.type) = "checkout.session.completed"
    /\ priceOf(session) = "throws"

\* The profiles an event is about: the profile of the checkout's user, the
\* profiles of the invoice's or the subscription's customer.
ProfilesOf(event, rows) ==
    IF event.type = "checkout.session.completed"
    THEN {u \in DOMAIN rows : u = event.client_reference_id}
    ELSE IF event.type \in {"invoice.paid", "customer.subscription.deleted"}
    THEN {u \in DOMAIN rows : event.customer # Null /\ rows[u].customer_id = event.customer}
    ELSE {}

\* The data of a .single() select: null, or the one row it matched.
NoRow == [found |-> FALSE]
OneRow(row) == [found |-> TRUE, row |-> row]

StripeInit ==
    /\ app \in {"reference", "guide", "database"}
    /\ profiles = [u \in Users |-> NewProfile]
    /\ subscriptions = <<>>
    /\ lastApplied = [u \in Users |-> "none"]
    /\ lastCheckout = [u \in Users |-> [customer |-> Null, price |-> Null]]
    /\ request = [route |-> "none"]
    /\ response = Json(0, EmptyBody)
    /\ branch = "none"
    /\ dbOps = <<>>
    /\ stripeCalls = <<>>
    /\ thrown = FALSE
    /\ userSubscription = [userId |-> Null, subscription |-> NoRow]

StripeIdle ==
    /\ app = "none"
    /\ profiles = [u \in Users |-> NewProfile]
    /\ subscriptions = <<>>
    /\ lastApplied = [u \in Users |-> "none"]
    /\ lastCheckout = [u \in Users |-> [customer |-> Null, price |-> Null]]
    /\ request = [route |-> "none"]
    /\ response = Json(0, EmptyBody)
    /\ branch = "none"
    /\ dbOps = <<>>
    /\ stripeCalls = <<>>
    /\ thrown = FALSE
    /\ userSubscription = [userId |-> Null, subscription |-> NoRow]

\* POST /api/webhook/stripe of the API reference.
ReferenceWebhook ==
    /\ app = "reference"
    /\ \E signatureValid \in BOOLEAN, e \in StripeEvents :
        /\ request' = WebhookRequest(signatureValid, e)
        /\ IF ~constructEvent(signatureValid, e).ok
           THEN /\ response' = Json(400, [error |-> "err.message"])
                /\ branch' = "none"
                /\ dbOps' = <<>>
                /\ stripeCalls' = <<>>
                /\ thrown' = FALSE
                /\ UNCHANGED <<profiles, lastApplied, lastCheckout>>
           ELSE LET event == constructEvent(signatureValid, e).event
                    case == ReferenceBranch(event.type) IN
                /\ branch' = case
                /\ response' = Json(200, EmptyBody)
                /\ IF case = "default"
                   THEN /\ dbOps' = <<>>
                        /\ stripeCalls' = <<>>
                        /\ thrown' = FALSE
                        /\ UNCHANGED <<profiles, lastApplied, lastCheckout>>
                   ELSE \E retrieved \in {r \in BOOLEAN : r \/ case = "checkout.session.completed"},
                           dbOk \in BOOLEAN :
                        LET session == findCheckoutSession(event, retrieved)
                            sent == ~ReferenceThrows(event, session)
                            upd == ReferenceUpdate(event, session) IN
                        /\ stripeCalls' = IF case = "checkout.session.completed"
                                          THEN <<Call("checkout.sessions.retrieve", retrieved)>> ELSE <<>>
                        /\ dbOps' = IF sent THEN <<Op("update", "profiles")>> ELSE <<>>
                        /\ thrown' = ~sent
                        /\ profiles' = IF sent
                                       THEN UpdateProfiles(profiles, dbOk, upd[1], upd[2], upd[3])
                                       ELSE profiles
                        /\ lastApplied' =
                              [u \in Users |->
                                  IF sent /\ dbOk /\ u \in ProfilesOf(event, profiles)
                                  THEN event.type ELSE lastApplied[u]]
                        /\ lastCheckout' =
                              [u \in Users |->
                                  IF /\ sent /\ dbOk /\ retrieved
                                     /\ event.type = "checkout.session.completed"
                                     /\ u \in ProfilesOf(event, profiles)
                                  THEN [customer |-> event.customer, price |-> event.price]
                                  ELSE lastCheckout[u]]
    /\ UNCHANGED <<app, subscriptions, userSubscription>>
    /\ UNCHANGED <<siteVars, leadVars, themeVars, mailVars, authVars, guardVars>>

\* The rows of public.subscriptions the payments guide's handlers write: user_id is
\* in none of their inserts or updates, so it keeps its default, NULL.
SubscriptionRow(event) ==
    [user_id |-> Null, stripe_customer_id |-> event.customer,
     status |-> event.status, price_id |-> event.price]

\* The switch of the payments guide's handler.
GuideBranch(type) ==
    IF type \in {"checkout.session.completed", "customer.subscription.created",
                 "customer.subscription.updated", "customer.subscription.deleted"}
    THEN type ELSE "default"

\* subscription.items.data[0].price.id throws when the item has no price.
GuideThrows(event) ==
    /\ GuideBranch(event.type) \in {"customer.subscription.created", "customer.subscription.updated"}
    /\ event.price = Null

\* handleSubscriptionCreated, handleSubscriptionUpdated, handleSubscriptionDeleted:
\* the subscriptions table after the call. stripe_subscription_id is UNIQUE, so
\* inserting an id again fails and changes nothing.
GuideSubscriptions(subs, event, ok) ==
    LET id == event.subscription IN
    CASE ~ok -> subs
      [] GuideBranch(event.type) = "customer.subscription.created" /\ id \notin DOMAIN subs ->
            [s \in DOMAIN subs \cup {id} |->
                IF s = id THEN SubscriptionRow(event) ELSE subs[s]]
      [] GuideBranch(event.type) = "customer.subscription.updated" /\ id \in DOMAIN subs ->
            [subs EXCEPT ![id].status = event.status, ![id].price_id = event.price]
      [] GuideBranch(event.type) = "customer.subscription.deleted" /\ id \in DOMAIN subs ->
            [subs EXCEPT ![id].status = "canceled"]
      [] OTHER -> subs

\* The database call a case of the payments guide's handler sends.
GuideOps(case) ==
    CASE case = "checkout.session.completed" -> <<Op("update", "profiles")>>
      [] case = "customer.subscription.created" -> <<Op("insert", "subscriptions")>>
      [] case = "customer.subscription.updated" -> <<Op("update", "subscriptions")>>
      [] case = "customer.subscription.deleted" -> <<Op("update", "subscriptions")>>
      [] OTHER -> <<>>

\* POST /api/webhook/stripe of the payments guide.
GuideWebhook ==
    /\ app = "guide"
    /\ \E signatureValid \in BOOLEAN, e \in StripeEvents :
        /\ request' = WebhookRequest(signatureValid, e)
        /\ stripeCalls' = <<>>
        /\ IF ~constructEvent(signatureValid, e).ok
           THEN /\ response' = Json(400, [error |-> "Webhook signature verification failed"])
                /\ thrown' = FALSE
                /\ branch' = "none"
                /\ dbOps' = <<>>
                /\ UNCHANGED <<profiles, subscriptions>>
           ELSE LET event == constructEvent(signatureValid, e).event
                    case == GuideBranch(event.type) IN
                /\ branch' = case
                /\ IF GuideThrows(event)
                   THEN /\ response' = Json(500, [error |-> "Webhook handler failed"])
                        /\ thrown' = TRUE
                        /\ dbOps' = <<>>
                        /\ UNCHANGED <<profiles, subscriptions>>
                   ELSE \E dbOk \in {ok \in BOOLEAN : ok \/ case # "default"} :
                        /\ response' = Json(200, [received |-> TRUE])
                        /\ thrown' = FALSE
                        /\ dbOps' = GuideOps(case)
                        /\ profiles' =
                              IF case = "checkout.session.completed"
                              THEN UpdateProfiles(profiles, dbOk, "id", event.client_reference_id,
                                                  [stripe_customer_id |-> event.customer])
                              ELSE profiles
                        /\ subscriptions' = GuideSubscriptions(subscriptions, event, dbOk)
    /\ UNCHANGED <<app, lastApplied, lastCheckout, userSubscription>>
    /\ UNCHANGED <<siteVars, leadVars, themeVars, mailVars, authVars, guardVars>>

CheckoutUrl == "https://checkout.stripe.com/pay/cs_test"

\* A validation that tests the mode before the URLs.
ValidationErrorModeFirst(body) ==
    IF ~body.priceId THEN "Price ID is required"
    ELSE IF ~body.mode
    THEN "Mode is required (either \"payment\" for one-time payments or \"subscription\" for recurring subscription)"
    ELSE IF ~body.successUrl \/ ~body.cancelUrl THEN "Success and cancel URLs are required"
    ELSE ""

\* The first branch of the body validation of POST /api/stripe/create-checkout that
\* answers, or "" when the body passes.
ValidationError(body) ==
    IF ~body.priceId THEN "Price ID is required"
    ELSE IF ~body.successUrl \/ ~body.cancelUrl THEN "Success and cancel URLs are required"
    ELSE IF ~body.mode
    THEN "Mode is required (either \"payment\" for one-time payments or \"subscription\" for recurring subscription)"
    ELSE ""

\* Which of the four fields the body carries.
CheckoutBodies == [priceId : BOOLEAN, successUrl : BOOLEAN, cancelUrl : BOOLEAN, mode : BOOLEAN]

CheckoutRequest(route, user, body) ==
    [route |-> route, authenticated |-> user # Null, body |-> body]

\* A createCheckout with no catch block: the error of Stripe reaches the caller.
createCheckoutThrowing(stripeOk) == IF stripeOk THEN CheckoutUrl ELSE "throws"

\* createCheckout: the session's url, or null when Stripe refuses.
createCheckout(stripeOk) == IF stripeOk THEN CheckoutUrl ELSE Null

\* POST /api/stripe/create-checkout of the API reference.
ReferenceCreateCheckout ==
    /\ app = "reference"
    /\ \E body \in CheckoutBodies, user \in Users \cup {Null},
          supabaseOk \in BOOLEAN, stripeOk \in BOOLEAN :
        /\ request' = CheckoutRequest("/api/stripe/create-checkout", user, body)
        /\ IF ValidationError(body) # ""
           THEN /\ response' = Json(400, [error |-> ValidationError(body)])
                /\ dbOps' = <<>>
                /\ stripeCalls' = <<>>
                /\ thrown' = FALSE
           ELSE IF ~supabaseOk
           THEN /\ response' = Json(500, [error |-> "e.message"])
                /\ dbOps' = <<Op("getUser", "auth")>>
                /\ stripeCalls' = <<>>
                /\ thrown' = TRUE
           ELSE /\ dbOps' = <<Op("getUser", "auth"), Op("select", "profiles")>>
                /\ stripeCalls' = <<Call("checkout.sessions.create", stripeOk)>>
                /\ response' = IF createCheckout(stripeOk) = "throws"
                               THEN Json(500, [error |-> "e.message"])
                               ELSE Json(200, [url |-> createCheckout(stripeOk)])
                /\ thrown' = (createCheckout(stripeOk) = "throws")
    /\ branch' = "none"
    /\ UNCHANGED <<app, profiles, subscriptions, lastApplied, lastCheckout, userSubscription>>
    /\ UNCHANGED <<siteVars, leadVars, themeVars, mailVars, authVars, guardVars>>

\* POST /api/checkout of the payments guide.
GuideCheckout ==
    /\ app = "guide"
    /\ \E bodyOk \in BOOLEAN, user \in Users \cup {Null}, stripeOk \in BOOLEAN :
        /\ request' = CheckoutRequest("/api/checkout", user, [parsed |-> bodyOk])
        /\ IF ~bodyOk
           THEN /\ response' = Json(500, [error |-> "Failed to create checkout session"])
                /\ dbOps' = <<>>
                /\ stripeCalls' = <<>>
           ELSE IF user = Null
           THEN /\ response' = Json(401, [error |-> "Authentication required"])
                /\ dbOps' = <<Op("getSession", "auth")>>
                /\ stripeCalls' = <<>>
           ELSE /\ dbOps' = <<Op("getSession", "auth")>>
                /\ stripeCalls' = <<Call("checkout.sessions.create", stripeOk)>>
                /\ response' = IF stripeOk
                               THEN Json(200, [url |-> CheckoutUrl])
                               ELSE Json(500, [error |-> "Failed to create checkout session"])
        /\ thrown' = (~bodyOk \/ (user # Null /\ ~stripeOk))
    /\ branch' = "none"
    /\ UNCHANGED <<app, profiles, subscriptions, lastApplied, lastCheckout, userSubscription>>
    /\ UNCHANGED <<siteVars, leadVars, themeVars, mailVars, authVars, guardVars>>

PortalUrl == "https://billing.stripe.com/session/bps_test"

PortalRequest(user) ==
    [route |-> "/api/customer-portal", authenticated |-> user # Null, user |-> user]

\* A route that creates the portal session without testing the customer id.
CustomerPortalWithoutCustomerTest(user, profile, stripeOk) ==
    IF user = Null
    THEN [response |-> Json(401, [error |-> "Authentication required"]),
          dbOps |-> <<Op("getSession", "auth")>>, stripeCalls |-> <<>>, thrown |-> FALSE]
    ELSE [response |-> IF stripeOk /\ profile.found /\ profile.row.stripe_customer_id # Null
                       THEN Json(200, [url |-> PortalUrl])
                       ELSE Json(500, [error |-> "Failed to create portal session"]),
          dbOps |-> <<Op("getSession", "auth"), Op("select", "profiles")>>,
          stripeCalls |-> <<Call("billingPortal.sessions.create",
                                 stripeOk /\ profile.found /\ profile.row.stripe_customer_id # Null)>>,
          thrown |-> ~(stripeOk /\ profile.found /\ profile.row.stripe_customer_id # Null)]

\* POST of app/api/customer-portal/route.js for a session's user (Null: no
\* session) and the data of the profile select: the response, the database and
\* Stripe calls made, and whether the try block threw.
CustomerPortal(user, profile, stripeOk) ==
    IF user = Null
    THEN [response |-> Json(401, [error |-> "Authentication required"]),
          dbOps |-> <<Op("getSession", "auth")>>, stripeCalls |-> <<>>, thrown |-> FALSE]
    ELSE IF ~profile.found \/ profile.row.stripe_customer_id = Null
    THEN [response |-> Json(404, [error |-> "No customer found"]),
          dbOps |-> <<Op("getSession", "auth"), Op("select", "profiles")>>,
          stripeCalls |-> <<>>, thrown |-> FALSE]
    ELSE [response |-> IF stripeOk THEN Json(200, [url |-> PortalUrl])
                       ELSE Json(500, [error |-> "Failed to create portal session"]),
          dbOps |-> <<Op("getSession", "auth"), Op("select", "profiles")>>,
          stripeCalls |-> <<Call("billingPortal.sessions.create", stripeOk)>>,
          thrown |-> ~stripeOk]

\* POST /api/customer-portal of the payments guide; a failed select returns no
\* data.
GuideCustomerPortal ==
    /\ app = "guide"
    /\ \E user \in Users \cup {Null}, dbOk \in BOOLEAN, stripeOk \in BOOLEAN :
        LET profile == IF user # Null /\ dbOk THEN OneRow(profiles[user]) ELSE NoRow
            answer == CustomerPortal(user, profile, stripeOk) IN
        /\ request' = PortalRequest(user)
        /\ response' = answer.response
        /\ dbOps' = answer.dbOps
        /\ stripeCalls' = answer.stripeCalls
        /\ thrown' = answer.thrown
    /\ branch' = "none"
    /\ UNCHANGED <<app, profiles, subscriptions, lastApplied, lastCheckout, userSubscription>>
    /\ UNCHANGED <<siteVars, leadVars, themeVars, mailVars, authVars, guardVars>>

\* getUserSubscription(userId): the active rows of the user, and .single(), whose
\* data is null unless exactly one row matches.
getUserSubscription(subs, userId) ==
    LET rows == {s \in DOMAIN subs :
                    SqlEq(subs[s].user_id, userId) /\ SqlEq(subs[s].status, "active")} IN
    IF Cardinality(rows) = 1 THEN OneRow(subs[CHOOSE s \in rows : TRUE]) ELSE NoRow

\* A server component calls getUserSubscription; a failed select returns no data.
GetUserSubscription ==
    /\ app = "guide"
    /\ \E userId \in Users, dbOk \in BOOLEAN :
        userSubscription' =
            [userId |-> userId,
             subscription |-> IF dbOk THEN getUserSubscription(subscriptions, userId) ELSE NoRow]
    /\ UNCHANGED <<app, profiles, subscriptions, lastApplied, lastCheckout, request, response,
                   branch, dbOps, stripeCalls, thrown>>
    /\ UNCHANGED <<siteVars, leadVars, themeVars, mailVars, authVars, guardVars>>

\* createCustomerPortal({ customerId, returnUrl }) of the API reference: the
\* portal session's url, or the error of Stripe, which it does not catch. No
\* route of the reference calls it, and it answers no request.
CreateCustomerPortal ==
    /\ app = "reference"
    /\ \E customerId \in Customers, stripeOk \in BOOLEAN :
        /\ request' = [route |-> "createCustomerPortal", args |-> <<customerId>>]
        /\ response' = Json(0, IF stripeOk THEN [returned |-> PortalUrl] ELSE EmptyBody)
        /\ stripeCalls' = <<Call("billingPortal.sessions.create", stripeOk)>>
        /\ thrown' = ~stripeOk
    /\ dbOps' = <<>>
    /\ branch' = "none"
    /\ UNCHANGED <<app, profiles, subscriptions, lastApplied, lastCheckout, userSubscription>>
    /\ UNCHANGED <<siteVars, leadVars, themeVars, mailVars, authVars, guardVars>>

\* An update of profiles sent through createClient(): the anon key with the
\* caller's cookies, so the policy "Users can update own profile", USING
\* (auth.uid() = id), leaves the statement the caller's own row only; caller
\* is Null without a session. A failed call changes no row.
UpdateOwnProfiles(rows, caller, ok, col, val, patch) ==
    [u \in DOMAIN rows |->
        IF ok /\ SqlEq(caller, u) /\ SqlEq(IF col = "id" THEN u ELSE rows[u][col], val)
        THEN Patched(rows[u], patch) ELSE rows[u]]

\* updateUserAccess(userId, hasAccess, priceId) of the database guide: the
\* profiles after the update, and whether it throws: on the error of the
\* database, and on the error of .select().single() when the update returned
\* no row. priceId is optional.
updateUserAccess(rows, caller, ok, userId, hasAccess, priceId) ==
    [rows |-> UpdateOwnProfiles(rows, caller, ok, "id", userId,
                                [has_access |-> hasAccess, price_id |-> priceId]),
     thrown |-> ~ok \/ ~SqlEq(caller, userId)]

\* updateStripeCustomer(userId, customerId) of the database guide.
updateStripeCustomer(rows, caller, ok, userId, customerId) ==
    [rows |-> UpdateOwnProfiles(rows, caller, ok, "id", userId, [customer_id |-> customerId]),
     thrown |-> ~ok \/ ~SqlEq(caller, userId)]

\* removeUserAccess(stripeCustomerId) of the database guide: there is no
\* .single(), and an update of no row is no error.
removeUserAccess(rows, caller, ok, stripeCustomerId) ==
    [rows |-> UpdateOwnProfiles(rows, caller, ok, "customer_id", stripeCustomerId,
                                [has_access |-> FALSE, price_id |-> Null]),
     thrown |-> ~ok]

\* The updates the example updateProfile is called with: some of the columns of
\* Partial<Profile>.
ProfileUpdates == {
    [has_access |-> TRUE],
    [price_id |-> "price_1"],
    [customer_id |-> "cus_2", has_access |-> FALSE]
}

\* What a call of one of the database guide's profile functions, which no route
\* of the other documents calls, leaves behind: the call, its caller and its
\* arguments, no response, the update it sent.
HelperRequest(name, caller, args) == [route |-> name, caller |-> caller, args |-> args]

UpdateUserAccess ==
    /\ app = "database"
    /\ \E caller \in Users \cup {Null}, userId \in Users, hasAccess \in BOOLEAN,
          priceId \in Prices \cup {Undefined}, dbOk \in BOOLEAN :
        LET call == updateUserAccess(profiles, caller, dbOk, userId, hasAccess, priceId) IN
        /\ request' = HelperRequest("updateUserAccess", caller,
                                    [userId |-> userId, hasAccess |-> hasAccess, priceId |-> priceId])
        /\ profiles' = call.rows
        /\ thrown' = call.thrown
    /\ response' = Json(0, EmptyBody)
    /\ dbOps' = <<Op("update", "profiles")>>
    /\ stripeCalls' = <<>>
    /\ branch' = "none"
    /\ UNCHANGED <<app, subscriptions, lastApplied, lastCheckout, userSubscription>>
    /\ UNCHANGED <<siteVars, leadVars, themeVars, mailVars, authVars, guardVars>>

UpdateStripeCustomer ==
    /\ app = "database"
    /\ \E caller \in Users \cup {Null}, userId \in Users, customerId \in Customers,
          dbOk \in BOOLEAN :
        LET call == updateStripeCustomer(profiles, caller, dbOk, userId, customerId) IN
        /\ request' = HelperRequest("updateStripeCustomer", caller,
                                    [userId |-> userId, customerId |-> customerId])
        /\ profiles' = call.rows
        /\ thrown' = call.thrown
    /\ response' = Json(0, EmptyBody)
    /\ dbOps' = <<Op("update", "profiles")>>
    /\ stripeCalls' = <<>>
    /\ branch' = "none"
    /\ UNCHANGED <<app, subscriptions, lastApplied, lastCheckout, userSubscription>>
    /\ UNCHANGED <<siteVars, leadVars, themeVars, mailVars, authVars, guardVars>>

RemoveUserAccess ==
    /\ app = "database"
    /\ \E caller \in Users \cup {Null}, stripeCustomerId \in Customers, dbOk \in BOOLEAN :
        LET call == removeUserAccess(profiles, caller, dbOk, stripeCustomerId) IN
        /\ request' = HelperRequest("removeUserAccess", caller,
                                    [stripeCustomerId |-> stripeCustomerId])
        /\ profiles' = call.rows
        /\ thrown' = call.thrown
    /\ response' = Json(0, EmptyBody)
    /\ dbOps' = <<Op("update", "profiles")>>
    /\ stripeCalls' = <<>>
    /\ branch' = "none"
    /\ UNCHANGED <<app, subscriptions, lastApplied, lastCheckout, userSubscription>>
    /\ UNCHANGED <<siteVars, leadVars, themeVars, mailVars, authVars, guardVars>>

\* The example updateProfile(userId, updates) of 'Database Types': the update of
\* any column of the row, whose error it does not read.
ExampleUpdateProfile ==
    /\ app = "database"
    /\ \E caller \in Users \cup {Null}, userId \in Users, updates \in ProfileUpdates,
          dbOk \in BOOLEAN :
        /\ request' = HelperRequest("updateProfile", caller,
                                    [userId |-> userId, updates |-> updates])
        /\ profiles' = UpdateOwnProfiles(profiles, caller, dbOk, "id", userId, updates)
    /\ thrown' = FALSE
    /\ response' = Json(0, EmptyBody)
    /\ dbOps' = <<Op("update", "profiles")>>
    /\ stripeCalls' = <<>>
    /\ branch' = "none"
    /\ UNCHANGED <<app, subscriptions, lastApplied, lastCheckout, userSubscription>>
    /\ UNCHANGED <<siteVars, leadVars, themeVars, mailVars, authVars, guardVars>>

StripeNext ==
    \/ ReferenceWebhook \/ GuideWebhook \/ ReferenceCreateCheckout \/ GuideCheckout
    \/ GuideCustomerPortal \/ GetUserSubscription
    \/ CreateCustomerPortal
    \/ UpdateUserAccess \/ UpdateStripeCustomer \/ RemoveUserAccess \/ ExampleUpdateProfile

(***************************************************************************)
(* POST /api/lead of the API reference and of the emails guide, and        *)
(* POST /api/leads of the customer support guide                           *)
(***************************************************************************)

\* The messages of the errors sendEmail throws.
EmailErrors == {"error_1", "error_2"}

LeadEmails == {"a@example.com", "b@example.com", "c@example.com"}

\* A value of body.email that is not a string, and a string that is no address.
NumberValue == "<number>"
MalformedEmail == "not-an-email"

\* body.email: missing, empty, a number, a string that is no address, or an address.
LeadBodies == {Undefined, "", NumberValue, MalformedEmail} \cup LeadEmails

\* !body.email
Falsy(v) == v = Undefined \/ v = ""

\* typeof email === 'string'
IsString(v) == v # Undefined /\ v # NumberValue

\* /^[^\s@]+@[^\s@]+\.[^\s@]+$/.test(email)
emailRegex(v) == v \in LeadEmails

\* A leads table without the constraint.
NoUniqueConstraint(rows, email) == FALSE

\* email TEXT UNIQUE NOT NULL: the insert of an email a row already holds fails
\* with error 23505.
UniqueViolation(rows, email) == \E i \in 1..Len(rows) : rows[i] = email

LeadInit ==
    /\ leadApp \in {"reference", "emails", "support", "database"}
    /\ leads = <<>>
    /\ leadRequest = [route |-> "none"]
    /\ leadResponse = Json(0, EmptyBody)
    /\ leadEffects = <<>>

LeadIdle ==
    /\ leadApp = "none"
    /\ leads = <<>>
    /\ leadRequest = [route |-> "none"]
    /\ leadResponse = Json(0, EmptyBody)
    /\ leadEffects = <<>>

\* The answer of the API reference's route to a body with an email: the insert
\* and the email are commented out, and the body returned is {}.
ReferenceLeadOk == Json(200, EmptyBody)

\* POST /api/lead of the API reference.
ReferenceLead ==
    /\ leadApp = "reference"
    /\ \E email \in LeadBodies :
        /\ leadRequest' = [route |-> "/api/lead", email |-> email]
        /\ leadResponse' = IF Falsy(email)
                           THEN Json(400, [error |-> "Email is required"])
                           ELSE ReferenceLeadOk
        /\ leadEffects' = <<>>
    /\ UNCHANGED <<leadApp, leads>>
    /\ UNCHANGED <<siteVars, stripeVars, themeVars, mailVars, authVars, guardVars>>

\* POST /api/lead of the emails guide: save the lead, notify the admin, welcome
\* the lead. sendEmail throws when Resend returns an error.
\* An email function that threw, with the message of the error.
Failed(name, message) == [call |-> name, ok |-> FALSE, message |-> message]

\* A route that sends the welcome email before it notifies the admin.
EmailsLeadEffectsWelcomeFirst(inserted, notifyError, welcomeError) ==
    IF ~inserted
    THEN <<Call("insert", FALSE)>>
    ELSE IF welcomeError # Null
    THEN <<Call("insert", TRUE), Failed("sendLeadWelcomeEmail", welcomeError)>>
    ELSE IF notifyError # Null
    THEN <<Call("insert", TRUE), Call("sendLeadWelcomeEmail", TRUE),
           Failed("sendLeadNotification", notifyError)>>
    ELSE <<Call("insert", TRUE), Call("sendLeadWelcomeEmail", TRUE),
           Call("sendLeadNotification", TRUE)>>

\* The calls of the try block, in order, up to the first one that fails: the
\* insert, await sendLeadNotification, await sendLeadWelcomeEmail.
EmailsLeadEffects(inserted, notifyError, welcomeError) ==
    IF ~inserted
    THEN <<Call("insert", FALSE)>>
    ELSE IF notifyError # Null
    THEN <<Call("insert", TRUE), Failed("sendLeadNotification", notifyError)>>
    ELSE IF welcomeError # Null
    THEN <<Call("insert", TRUE), Call("sendLeadNotification", TRUE),
           Failed("sendLeadWelcomeEmail", welcomeError)>>
    ELSE <<Call("insert", TRUE), Call("sendLeadNotification", TRUE),
           Call("sendLeadWelcomeEmail", TRUE)>>

\* A route that answers success once the lead is saved.
EmailsLeadResponseIgnoringEmails(email, effects) ==
    IF ~effects[1].ok
    THEN Json(500, [error |-> "Failed to save lead"])
    ELSE Json(200, [success |-> TRUE, lead |-> email])

\* The answer after those calls: the insert's error, the catch block's answer
\* to an email function that threw, or success.
EmailsLeadResponse(email, effects) ==
    LET last == effects[Len(effects)] IN
    IF ~effects[1].ok
    THEN Json(500, [error |-> "Failed to save lead"])
    ELSE IF ~last.ok
    THEN Json(500, [error |-> last.message])
    ELSE Json(200, [success |-> TRUE, lead |-> email])

\* POST /api/lead of the emails guide.
EmailsLead ==
    /\ leadApp = "emails"
    /\ \E email \in LeadBodies, dbOk \in BOOLEAN,
          notifyError \in {Null} \cup EmailErrors, welcomeError \in {Null} \cup EmailErrors :
        LET inserted == dbOk /\ ~UniqueViolation(leads, email)
            effects == EmailsLeadEffects(inserted, notifyError, welcomeError) IN
        /\ leadRequest' = [route |-> "/api/lead", email |-> email]
        /\ IF Falsy(email)
           THEN /\ leadResponse' = Json(400, [error |-> "Email is required"])
                /\ leadEffects' = <<>>
                /\ leads' = leads
           ELSE /\ leadResponse' = EmailsLeadResponse(email, effects)
                /\ leadEffects' = effects
                /\ leads' = IF inserted THEN Append(leads, email) ELSE leads
    /\ UNCHANGED leadApp
    /\ UNCHANGED <<siteVars, stripeVars, themeVars, mailVars, authVars, guardVars>>

\* The body of an ApiResponse that reports an error.
ApiError(message, code) == [success |-> FALSE, message |-> message, code |-> code]

\* supabase.from('leads').insert({ email }).select() and the code of the error it
\* returned: Null for none, 23505 for the unique constraint, any other code for
\* a statement the database refused or never received.
Insert(code) == [call |-> "insert", ok |-> code = Null, code |-> code]

\* POST /api/leads of the customer support guide, wrapped by withErrorHandler.
SupportLeads ==
    /\ leadApp = "support"
    /\ \E email \in LeadBodies, dbError \in {Null, "42501"} :
        /\ leadRequest' = [route |-> "/api/leads", email |-> email]
        /\ IF Falsy(email) \/ ~IsString(email)
           THEN /\ leadResponse' = Json(400, ApiError("Email is required", "VALIDATION_ERROR"))
                /\ leadEffects' = <<>>
                /\ leads' = leads
           ELSE IF ~emailRegex(email)
           THEN /\ leadResponse' = Json(400, ApiError("Invalid email format", "INVALID_EMAIL"))
                /\ leadEffects' = <<>>
                /\ leads' = leads
           ELSE IF dbError # Null
           THEN /\ leadResponse' = Json(500, ApiError("Database error: " \o dbError, "INTERNAL_ERROR"))
                /\ leadEffects' = <<Insert(dbError)>>
                /\ leads' = leads
           ELSE IF UniqueViolation(leads, email)
           THEN /\ leadResponse' = Json(409, ApiError("Email already exists", "EMAIL_EXISTS"))
                /\ leadEffects' = <<Insert("23505")>>
                /\ leads' = leads
           ELSE /\ leadResponse' = Json(200, [success |-> TRUE, lead |-> email])
                /\ leadEffects' = <<Insert(Null)>>
                /\ leads' = Append(leads, email)
    /\ UNCHANGED leadApp
    /\ UNCHANGED <<siteVars, stripeVars, themeVars, mailVars, authVars, guardVars>>

\* The emails addLead is called with: any string.
AddLeadEmails == {"", MalformedEmail} \cup LeadEmails

\* The code of the error of addLead's insert: the database's own failure; 42501
\* for a caller without a session, whose row may not be returned, .select()
\* reading it back under the policy "Authenticated users can view leads", the
\* statement failing as a whole; 23505 for an email a row already holds. Row
\* level security is tested before the unique index.
addLeadError(rows, email, authenticated, dbError) ==
    IF dbError # Null THEN dbError
    ELSE IF ~authenticated THEN "42501"
    ELSE IF UniqueViolation(rows, email) THEN "23505"
    ELSE Null

\* addLead(email) of the database guide, which no route of the other documents
\* calls: the insert without a test of the email, the row returned or the
\* error thrown. It answers no request.
AddLead ==
    /\ leadApp = "database"
    /\ \E email \in AddLeadEmails, authenticated \in BOOLEAN, dbError \in {Null, "08006"} :
        LET code == addLeadError(leads, email, authenticated, dbError) IN
        /\ leadRequest' = [route |-> "addLead", authenticated |-> authenticated, email |-> email]
        /\ leadResponse' = Json(0, IF code = Null THEN [returned |-> email]
                                   ELSE [thrown |-> code])
        /\ leadEffects' = <<Insert(code)>>
        /\ leads' = IF code = Null THEN Append(leads, email) ELSE leads
    /\ UNCHANGED leadApp
    /\ UNCHANGED <<siteVars, stripeVars, themeVars, mailVars, authVars, guardVars>>

LeadNext == ReferenceLead \/ EmailsLead \/ SupportLeads \/ AddLead

(***************************************************************************)
(* Dark mode: ThemeToggle and ThemeToggleDropdown over next-themes         *)
(***************************************************************************)

MaxClicks == 4

\* config.theme.themes, and the custom themes the guide adds.
ConfigThemes == {"light", "dark", "system"}
CustomThemes == {"purple", "blue"}

\* useTheme().theme is undefined until the component has mounted on the client.
ThemeValues == ConfigThemes \cup CustomThemes \cup {Undefined}

\* A toggle between light and dark alone.
handleToggleTwoThemes(t) == IF t = "light" THEN "dark" ELSE "light"

\* handleToggle: the theme a click on ThemeToggle sets.
handleToggle(t) ==
    IF t = "light" THEN "dark"
    ELSE IF t = "dark" THEN "system"
    ELSE "light"

Click(control, t) == [control |-> control, theme |-> t]

ThemeInit ==
    /\ theme \in ThemeValues
    /\ initialTheme = theme
    /\ history = <<>>

ThemeIdle ==
    /\ theme = "system"
    /\ initialTheme = "system"
    /\ history = <<>>

\* A click on ThemeToggle.
ToggleClick ==
    /\ Len(history) < MaxClicks
    /\ theme' = handleToggle(theme)
    /\ history' = Append(history, Click("ThemeToggle", theme'))
    /\ UNCHANGED initialTheme
    /\ UNCHANGED <<siteVars, stripeVars, leadVars, mailVars, authVars, guardVars>>

\* A click on an item of ThemeToggleDropdown: Light, Dark or System, or a custom
\* theme's item.
DropdownSelect ==
    /\ Len(history) < MaxClicks
    /\ \E t \in ConfigThemes \cup {"purple"} :
        /\ theme' = t
        /\ history' = Append(history, Click("ThemeToggleDropdown", t))
    /\ UNCHANGED initialTheme
    /\ UNCHANGED <<siteVars, stripeVars, leadVars, mailVars, authVars, guardVars>>

ThemeNext == ToggleClick \/ DropdownSelect

(***************************************************************************)
(* sendEmailWithRetry (emails guide, libs/email-with-retry.ts)             *)
(***************************************************************************)

\* The largest maxRetries a call is made with.
MaxRetriesBound == 4

\* What a sendEmail call resolves to.
EmailResults == {"result_1", "result_2"}

\* One sendEmail call and how it settled; one wait that has elapsed.
SendEmailCall(n, ok, value) == [kind |-> "sendEmail", attempt |-> n, ok |-> ok, value |-> value]
Wait(ms) == [kind |-> "wait", ms |-> ms]

\* for (...; attempt <= maxRetries; ...)
loopCondition(n, max) == n <= max

\* A loop that never takes the attempt for the last one.
lastAttemptNever(n, max) == FALSE

\* if (attempt === maxRetries) throw error
lastAttempt(n, max) == n = max

\* A delay that grows by 2000 ms per attempt.
backoffLinear(n) == 1000 * 2 * n

\* setTimeout(resolve, 1000 * Math.pow(2, attempt))
backoff(n) == 1000 * 2^n

\* sendEmailWithRetry(emailData, maxRetries) is called: the loop is entered with
\* attempt = 1, or left at once and undefined returned.
RetryInit ==
    /\ maxRetries \in 0..MaxRetriesBound
    /\ attempt = 1
    /\ retryPc = IF loopCondition(1, maxRetries) THEN "calling" ELSE "returned"
    /\ retryLog = <<>>
    /\ retryResult = Undefined

RetryIdle ==
    /\ maxRetries = 0
    /\ attempt = 0
    /\ retryPc = "idle"
    /\ retryLog = <<>>
    /\ retryResult = Undefined

\* return await sendEmail(emailData), the call resolving.
SendEmailResolves ==
    /\ retryPc = "calling"
    /\ \E r \in EmailResults :
        /\ retryLog' = Append(retryLog, SendEmailCall(attempt, TRUE, r))
        /\ retryResult' = r
    /\ retryPc' = "returned"
    /\ UNCHANGED <<maxRetries, attempt>>
    /\ UNCHANGED <<siteVars, stripeVars, leadVars, themeVars, testVars, queueVars, authVars, guardVars>>

\* The call rejecting: the catch block rethrows on the last attempt and sets the
\* timer otherwise.
SendEmailRejects ==
    /\ retryPc = "calling"
    /\ \E e \in EmailErrors :
        /\ retryLog' = Append(retryLog, SendEmailCall(attempt, FALSE, e))
        /\ IF lastAttempt(attempt, maxRetries)
           THEN /\ retryPc' = "thrown"
                /\ retryResult' = e
           ELSE /\ retryPc' = "waiting"
                /\ retryResult' = retryResult
    /\ UNCHANGED <<maxRetries, attempt>>
    /\ UNCHANGED <<siteVars, stripeVars, leadVars, themeVars, testVars, queueVars, authVars, guardVars>>

\* The timer fires: attempt++ and the loop condition is tested again; the
\* function returns undefined when it fails.
BackoffElapses ==
    /\ retryPc = "waiting"
    /\ retryLog' = Append(retryLog, Wait(backoff(attempt)))
    /\ attempt' = attempt + 1
    /\ retryPc' = IF loopCondition(attempt + 1, maxRetries) THEN "calling" ELSE "returned"
    /\ UNCHANGED <<maxRetries, retryResult>>
    /\ UNCHANGED <<siteVars, stripeVars, leadVars, themeVars, testVars, queueVars, authVars, guardVars>>

RetryNext == SendEmailResolves \/ SendEmailRejects \/ BackoffElapses

(***************************************************************************)
(* POST /api/email/test (emails guide)                                     *)
(***************************************************************************)

\* Values of process.env.NODE_ENV, and of the body's email, type and name.
NodeEnvs == {"development", "production", "test", Undefined}
TestEmails == {Undefined, "", "a@example.com", "b@example.com"}
TestTypes == {Undefined, "welcome", "magic-link", "newsletter"}
TestNames == {Undefined, "Ada"}

\* A guard that only turns production away.
notProduction(env) == env # "production"

\* The negation of process.env.NODE_ENV !== 'development'
isDevelopment(env) == env = "development"

\* One email handed to the email service, and whether sending it succeeded.
Sent(fn, to, arg, ok) == [fn |-> fn, to |-> to, arg |-> arg, ok |-> ok]

\* The emails the switch sends for a type: sendWelcomeEmail(email, name || 'Test User'),
\* sendMagicLinkEmail(email, url), nothing in the default case.
TestEmailsSent(email, type, name, ok) ==
    IF type = "welcome"
    THEN <<Sent("sendWelcomeEmail", email, IF Falsy(name) THEN "Test User" ELSE name, ok)>>
    ELSE IF type = "magic-link"
    THEN <<Sent("sendMagicLinkEmail", email, "https://example.com/auth/callback?token=test", ok)>>
    ELSE <<>>

TestInit ==
    /\ nodeEnv \in NodeEnvs
    /\ testRequest = [email |-> Undefined, type |-> Undefined, name |-> Undefined]
    /\ testResponse = Json(0, EmptyBody)
    /\ testSent = <<>>

TestIdle ==
    /\ nodeEnv = "none"
    /\ testRequest = [email |-> Undefined, type |-> Undefined, name |-> Undefined]
    /\ testResponse = Json(0, EmptyBody)
    /\ testSent = <<>>

\* POST of app/api/email/test/route.ts, for a body that is a JSON object.
EmailTest ==
    /\ \E email \in TestEmails, type \in TestTypes, name \in TestNames, sendOk \in BOOLEAN :
        /\ testRequest' = [email |-> email, type |-> type, name |-> name]
        /\ IF ~isDevelopment(nodeEnv)
           THEN /\ testResponse' = Json(403, [error |-> "Not available in production"])
                /\ testSent' = <<>>
           ELSE IF Falsy(email)
           THEN /\ testResponse' = Json(400, [error |-> "Email is required"])
                /\ testSent' = <<>>
           ELSE IF TestEmailsSent(email, type, name, sendOk) = <<>>
           THEN /\ testResponse' = Json(400, [error |-> "Invalid email type. Use: welcome, magic-link"])
                /\ testSent' = <<>>
           ELSE /\ testSent' = TestEmailsSent(email, type, name, sendOk)
                /\ testResponse' =
                      IF sendOk
                      THEN Json(200, [success |-> TRUE, message |-> type \o " email sent to " \o email])
                      ELSE Json(500, [error |-> "Failed to send test email"])
    /\ UNCHANGED nodeEnv
    /\ UNCHANGED <<siteVars, stripeVars, leadVars, themeVars, retryVars, queueVars, authVars, guardVars>>

TestNext == EmailTest

(***************************************************************************)
(* Email rate limiter (emails guide, libs/email-rate-limiter.ts)           *)
(***************************************************************************)

\* The number of queueEmail calls made.
MaxQueued == 4

\* setTimeout(resolve, 100)
RateLimitMs == 100

\* The entries of queueLog: an email function is called, it settles, the rate
\* limit timer fires, processQueue returns.
Started(fn) == [ev |-> "start", fn |-> fn]
Ended(fn, ok) == [ev |-> "end", fn |-> fn, ok |-> ok]
Elapsed(ms) == [ev |-> "wait", ms |-> ms]
Returned == [ev |-> "return"]

\* A processQueue call suspended at an await: of the email function, or of the timer.
Loop(pc, fn) == [pc |-> pc, fn |-> fn]

\* A queueEmail that only pushes.
shouldStartNever(flag) == FALSE

\* A queueEmail that starts processQueue on every call.
shouldStartAlways(flag) == TRUE

\* if (!isProcessing) processQueue()
shouldStart(flag) == ~flag

\* A loop that stops with one function left in the queue.
whileConditionMoreThanOne(queue) == Len(queue) > 1

\* while (emailQueue.length > 0)
whileCondition(queue) == Len(queue) > 0

\* The head of processQueue's loop, run to the next await or to the return: the
\* first function is shifted and called, or isProcessing is reset and the call
\* returns. The flag is left as it is while the loop goes on.
WhileHead(queue, log, flag) ==
    IF whileCondition(queue)
    THEN [loop |-> {Loop("emailFn", Head(queue))}, queue |-> Tail(queue),
          log |-> Append(log, Started(Head(queue))), flag |-> flag]
    ELSE [loop |-> {}, queue |-> queue, log |-> Append(log, Returned), flag |-> FALSE]

QueueInit ==
    /\ emailQueue = <<>>
    /\ isProcessing = FALSE
    /\ loops = {}
    /\ queued = 0
    /\ queueLog = <<>>

QueueIdle ==
    /\ emailQueue = <<>>
    /\ isProcessing = FALSE
    /\ loops = {}
    /\ queued = -1
    /\ queueLog = <<>>

\* queueEmail(emailFn): the push and, when processQueue is called, its run up to
\* its first await.
QueueEmail ==
    /\ queued >= 0
    /\ queued < MaxQueued
    /\ queued' = queued + 1
    /\ LET pushed == Append(emailQueue, queued + 1)
           w == WhileHead(pushed, queueLog, TRUE) IN
       IF shouldStart(isProcessing)
       THEN /\ emailQueue' = w.queue
            /\ isProcessing' = w.flag
            /\ loops' = loops \cup w.loop
            /\ queueLog' = w.log
       ELSE /\ emailQueue' = pushed
            /\ UNCHANGED <<isProcessing, loops, queueLog>>
    /\ UNCHANGED <<siteVars, stripeVars, leadVars, themeVars, retryVars, testVars, authVars, guardVars>>

\* await emailFn() settles: fulfilled, the timer is set; rejected, the catch
\* block logs the error and the loop goes on.
EmailFnSettles ==
    /\ \E l \in loops, ok \in BOOLEAN :
        /\ l.pc = "emailFn"
        /\ LET w == WhileHead(emailQueue, Append(queueLog, Ended(l.fn, ok)), isProcessing) IN
           IF ok
           THEN /\ loops' = (loops \ {l}) \cup {Loop("timer", l.fn)}
                /\ queueLog' = Append(queueLog, Ended(l.fn, ok))
                /\ UNCHANGED <<emailQueue, isProcessing>>
           ELSE /\ loops' = (loops \ {l}) \cup w.loop
                /\ queueLog' = w.log
                /\ emailQueue' = w.queue
                /\ isProcessing' = w.flag
    /\ UNCHANGED queued
    /\ UNCHANGED <<siteVars, stripeVars, leadVars, themeVars, retryVars, testVars, authVars, guardVars>>

\* The timer of the rate limit fires and the loop goes on.
RateLimitElapses ==
    /\ \E l \in loops :
        /\ l.pc = "timer"
        /\ LET w == WhileHead(emailQueue, Append(queueLog, Elapsed(RateLimitMs)), isProcessing) IN
           /\ loops' = (loops \ {l}) \cup w.loop
           /\ queueLog' = w.log
           /\ emailQueue' = w.queue
           /\ isProcessing' = w.flag
    /\ UNCHANGED queued
    /\ UNCHANGED <<siteVars, stripeVars, leadVars, themeVars, retryVars, testVars, authVars, guardVars>>

QueueNext == QueueEmail \/ EmailFnSettles \/ RateLimitElapses

(***************************************************************************)
(* auth.users, public.profiles and its row level security (database guide) *)
(***************************************************************************)

\* raw_user_meta_data of a new user: what the provider supplied.
UserMetaData == {
    [name |-> "Ada", full_name |-> Null, avatar_url |-> Null],
    [name |-> Null, full_name |-> "Ada L.", avatar_url |-> "https://example.com/a.png"],
    [name |-> Null, full_name |-> Null, avatar_url |-> Null]
}

\* The row of auth.users an insert creates.
AuthUser(id, meta) == [id |-> id, email |-> id \o "@example.com", raw_user_meta_data |-> meta]

\* COALESCE(a, b)
Coalesce(a, b) == IF a # Null THEN a ELSE b

\* handle_new_user(): the row inserted into public.profiles for the row NEW of
\* auth.users (new here), the columns
\* it does not name taking the defaults of the table.
handle_new_user(new) ==
    [id |-> new.id,
     name |-> Coalesce(new.raw_user_meta_data.name, new.raw_user_meta_data.full_name),
     email |-> new.email,
     image |-> new.raw_user_meta_data.avatar_url,
     customer_id |-> Null, price_id |-> Null, has_access |-> FALSE]

\* A foreign key that leaves the rows of a deleted user in place.
OnDeleteNoAction(table, id) == table

\* id UUID PRIMARY KEY REFERENCES auth.users(id) ON DELETE CASCADE
OnDeleteCascade(table, id) == {r \in table : r.id # id}

\* A SELECT policy that shows every row.
UsersCanViewAnyProfile(uid, row) == TRUE

\* "Users can view own profile": FOR SELECT USING (auth.uid() = id)
UsersCanViewOwnProfile(uid, row) == SqlEq(uid, row.id)

\* "Users can update own profile": FOR UPDATE USING (auth.uid() = id); with no
\* WITH CHECK the expression is also applied to the updated row.
UsersCanUpdateOwnProfile(uid, row) == SqlEq(uid, row.id)

\* "Users can insert own profile": FOR INSERT WITH CHECK (auth.uid() = id)
UsersCanInsertOwnProfile(uid, row) == SqlEq(uid, row.id)

\* The row a client inserts for an id: the id and the defaults of the table.
InsertedProfile(id) ==
    [id |-> id, name |-> Null, email |-> Null, image |-> Null,
     customer_id |-> Null, price_id |-> Null, has_access |-> FALSE]

\* A statement on public.profiles issued with a user's token: target is the id
\* the statement filters on or inserts, "*" without a filter.
Statement(uid, op, target, patch) == [uid |-> uid, op |-> op, target |-> target, patch |-> patch]

\* The patches of the updates issued.
ProfilePatches == {[name |-> "Eve"], [has_access |-> TRUE]} \cup {[id |-> u] : u \in Users}

Matches(target, row) == target = "*" \/ row.id = target

\* The outcome of a statement under the policies: the error code or Null, the
\* rows returned, and the table afterwards. No policy allows DELETE.
RlsExec(st, users, table) ==
    LET seen == {r \in table : Matches(st.target, r) /\ UsersCanViewOwnProfile(st.uid, r)} IN
    CASE st.op = "select" ->
            [error |-> Null, rows |-> seen, table |-> table]
      [] st.op = "update" ->
            LET old == {r \in seen : UsersCanUpdateOwnProfile(st.uid, r)}
                new == {Patched(r, st.patch) : r \in old}
                after == (table \ old) \cup new IN
            IF \E r \in new : ~UsersCanUpdateOwnProfile(st.uid, r)
            THEN [error |-> "42501", rows |-> {}, table |-> table]
            ELSE IF Cardinality({r.id : r \in after}) # Cardinality(table)
            THEN [error |-> "23505", rows |-> {}, table |-> table]
            ELSE [error |-> Null, rows |-> new, table |-> after]
      [] st.op = "insert" ->
            LET row == InsertedProfile(st.target) IN
            IF ~UsersCanInsertOwnProfile(st.uid, row)
            THEN [error |-> "42501", rows |-> {}, table |-> table]
            ELSE IF row.id \notin users
            THEN [error |-> "23503", rows |-> {}, table |-> table]
            ELSE IF \E r \in table : r.id = row.id
            THEN [error |-> "23505", rows |-> {}, table |-> table]
            ELSE [error |-> Null, rows |-> {row}, table |-> table \cup {row}]
      [] st.op = "delete" ->
            [error |-> Null, rows |-> {}, table |-> table]

AuthInit ==
    /\ authUsers = {}
    /\ publicProfiles = {}
    /\ rlsRequest = Statement(Null, "none", "*", <<>>)
    /\ rlsResult = [error |-> Null, rows |-> {}]
    /\ rlsBefore = {}

AuthIdle ==
    /\ authUsers = {}
    /\ publicProfiles = {}
    /\ rlsRequest = Statement(Null, "idle", "*", <<>>)
    /\ rlsResult = [error |-> Null, rows |-> {}]
    /\ rlsBefore = {}

\* A sign-up: the insert into auth.users and, in the same transaction, the
\* trigger on_auth_user_created running handle_new_user as its definer.
SignUp ==
    /\ rlsRequest.op # "idle"
    /\ \E id \in Users \ authUsers, meta \in UserMetaData :
        /\ authUsers' = authUsers \cup {id}
        /\ publicProfiles' = publicProfiles \cup {handle_new_user(AuthUser(id, meta))}
        /\ rlsRequest' = Statement(Null, "signup", id, <<>>)
    /\ rlsResult' = [error |-> Null, rows |-> {}]
    /\ rlsBefore' = publicProfiles
    /\ UNCHANGED <<siteVars, stripeVars, leadVars, themeVars, mailVars, guardVars>>

\* A user is deleted from auth.users.
DeleteUser ==
    /\ \E id \in authUsers :
        /\ authUsers' = authUsers \ {id}
        /\ publicProfiles' = OnDeleteCascade(publicProfiles, id)
        /\ rlsRequest' = Statement(Null, "deleteUser", id, <<>>)
    /\ rlsResult' = [error |-> Null, rows |-> {}]
    /\ rlsBefore' = publicProfiles
    /\ UNCHANGED <<siteVars, stripeVars, leadVars, themeVars, mailVars, guardVars>>

\* A select, update, insert or delete on public.profiles through the API, with
\* the token of a user (who may have been deleted since) or with none.
ProfileStatement ==
    /\ rlsRequest.op # "idle"
    /\ \E uid \in Users \cup {Null}, op \in {"select", "update", "insert", "delete"},
          target \in Users \cup {"*"}, patch \in ProfilePatches :
        /\ op = "insert" => target \in Users
        /\ LET st == Statement(uid, op, target, IF op = "update" THEN patch ELSE <<>>)
               out == RlsExec(st, authUsers, publicProfiles) IN
           /\ rlsRequest' = st
           /\ rlsResult' = [error |-> out.error, rows |-> out.rows]
           /\ publicProfiles' = out.table
    /\ rlsBefore' = publicProfiles
    /\ UNCHANGED authUsers
    /\ UNCHANGED <<siteVars, stripeVars, leadVars, themeVars, mailVars, guardVars>>

AuthNext == SignUp \/ DeleteUser \/ ProfileStatement

(***************************************************************************)
(* withErrorHandler (customer support guide, libs/api-handler.ts)          *)
(***************************************************************************)

\* The number of requests a wrapped handler serves.
MaxWrapped == 2

\* What a call ends with: a response returned, or a value thrown (by the call or
\* by the promise it returned).
Returns(res) == [kind |-> "returns", response |-> res]
Throws(kind, value) == [kind |-> kind, error |-> value]

\* Values thrown: Error objects with their message, and values that are no Error.
ErrorObject(message) == [isError |-> TRUE, message |-> message]
NonError(value) == [isError |-> FALSE, value |-> value]

ThrownValues == {
    ErrorObject("Database error: connection refused"),
    ErrorObject(""),
    NonError("timeout"),
    NonError(Undefined)
}

\* The responses an inner handler returns.
HandlerResponses == {
    Json(200, [success |-> TRUE]),
    Json(400, ApiError("Email is required", "VALIDATION_ERROR")),
    Json(405, ApiError("Method not allowed", "METHOD_NOT_ALLOWED")),
    Json(409, ApiError("Email already exists", "EMAIL_EXISTS"))
}

HandlerOutcomes ==
    {Returns(r) : r \in HandlerResponses}
        \cup {Throws(k, v) : k \in {"throws", "rejects"}, v \in ThrownValues}

\* A wrapper that returns handler(req) without awaiting it: a rejection passes
\* the try block by.
withErrorHandlerWithoutAwait(outcome) ==
    IF outcome.kind \in {"returns", "rejects"}
    THEN outcome
    ELSE Returns(Json(500, ApiError(IF outcome.error.isError THEN outcome.error.message
                                    ELSE "Internal server error", "INTERNAL_ERROR")))

\* withErrorHandler(handler)(req), given what handler(req) ends with.
withErrorHandler(outcome) ==
    IF outcome.kind = "returns"
    THEN outcome
    ELSE Returns(Json(500, ApiError(IF outcome.error.isError THEN outcome.error.message
                                    ELSE "Internal server error", "INTERNAL_ERROR")))

WrapInit == wrapped = <<>>

WrapIdle == wrapped = <<>>

\* One request to the wrapped handler.
WrappedCall ==
    /\ Len(wrapped) < MaxWrapped
    /\ \E o \in HandlerOutcomes :
        wrapped' = Append(wrapped, [inner |-> o, outer |-> withErrorHandler(o)])
    /\ UNCHANGED <<siteVars, stripeVars, leadVars, themeVars, mailVars, authVars, hookVars, pageVars>>

WrapNext == WrappedCall

(***************************************************************************)
(* useErrorHandler (customer support guide, hooks/useErrorHandler.ts)      *)
(***************************************************************************)

\* The number of handleAsync calls made.
MaxHandleAsync == 3

\* How an asyncFn settles: fulfilled, rejected with an ApiError and its
\* message, rejected with another error.
AsyncOutcomes == {
    [kind |-> "fulfilled", message |-> ""],
    [kind |-> "ApiError", message |-> "Email already exists"],
    [kind |-> "Error", message |-> "Failed to fetch"]
}

\* err instanceof ApiError ? err.message : 'An unexpected error occurred'
errorMessage(err) ==
    IF err.kind = "ApiError" THEN err.message ELSE "An unexpected error occurred"

HookInit ==
    /\ isLoading = FALSE
    /\ hookError = Null
    /\ pending = {}
    /\ calls = 0
    /\ hookLog = <<>>

HookIdle ==
    /\ isLoading = FALSE
    /\ hookError = Null
    /\ pending = {}
    /\ calls = -1
    /\ hookLog = <<>>

\* handleAsync(asyncFn, ...) up to its await: setIsLoading(true), setError(null),
\* asyncFn().
HandleAsync ==
    /\ calls >= 0
    /\ calls < MaxHandleAsync
    /\ calls' = calls + 1
    /\ pending' = pending \cup {calls + 1}
    /\ isLoading' = TRUE
    /\ hookError' = Null
    /\ UNCHANGED hookLog
    /\ UNCHANGED <<siteVars, stripeVars, leadVars, themeVars, mailVars, authVars, wrapVars, pageVars>>

\* The asyncFn of a call settles: the rest of the try block or the catch block,
\* then finally's setIsLoading(false).
AsyncFnSettles ==
    /\ \E c \in pending, o \in AsyncOutcomes :
        /\ pending' = pending \ {c}
        /\ hookError' = IF o.kind = "fulfilled" THEN hookError ELSE errorMessage(o)
        /\ hookLog' = Append(hookLog, [call |-> c, outcome |-> o.kind])
    /\ isLoading' = FALSE
    /\ UNCHANGED calls
    /\ UNCHANGED <<siteVars, stripeVars, leadVars, themeVars, mailVars, authVars, wrapVars, pageVars>>

\* clearError(): setError(null).
ClearError ==
    /\ calls >= 0
    /\ hookError' = Null
    /\ UNCHANGED <<isLoading, pending, calls, hookLog>>
    /\ UNCHANGED <<siteVars, stripeVars, leadVars, themeVars, mailVars, authVars, wrapVars, pageVars>>

HookNext == HandleAsync \/ AsyncFnSettles \/ ClearError

(***************************************************************************)
(* ProtectedPage (authentication guide)                                    *)
(***************************************************************************)

\* The number of requests of the page.
MaxPageRequests == 4

\* data.session of supabase.auth.getSession(): null, or the session of a user,
\* who may have no email.
NoSession == [found |-> FALSE]
SessionOf(email) == [found |-> TRUE, email |-> email]
Sessions == {NoSession, SessionOf("u1@example.com"), SessionOf("u2@example.com"), SessionOf(Undefined)}

\* A redirect that returns to its caller.
redirectReturning(path) == [kind |-> "redirect", to |-> path, thrown |-> FALSE]

\* redirect(path) of next/navigation: it throws NEXT_REDIRECT and never returns.
redirect(path) == [kind |-> "redirect", to |-> path, thrown |-> TRUE]

\* {session.user.email} in the JSX: undefined renders as nothing.
Rendered(email) ==
    [kind |-> "content",
     html |-> "<div><h1>Protected Content</h1><p>Welcome, "
                \o (IF email = Undefined THEN "" ELSE email) \o "!</p></div>"]

\* ProtectedPage(), given the session: the redirect thrown, or the content; a
\* redirect that returned would be followed by the TypeError of session.user.
ProtectedPage(session) ==
    IF ~session.found
    THEN IF redirect("/login").thrown
         THEN redirect("/login")
         ELSE [kind |-> "error", message |-> "TypeError"]
    ELSE Rendered(session.email)

PageInit == pageRequests = <<>>

PageIdle == pageRequests = <<>>

\* One request of the page.
PageRequest ==
    /\ Len(pageRequests) < MaxPageRequests
    /\ \E session \in Sessions :
        pageRequests' = Append(pageRequests, [session |-> session, produced |-> ProtectedPage(session)])
    /\ UNCHANGED <<siteVars, stripeVars, leadVars, themeVars, mailVars, authVars, wrapVars, hookVars>>

PageNext == PageRequest

(***************************************************************************)
(* Specifications                                                          *)
(***************************************************************************)

\* The subsystems a specification leaves out stay in their idle state.
GuardIdle == WrapIdle /\ HookIdle /\ PageIdle
MailIdle == RetryIdle /\ TestIdle /\ QueueIdle
AppsIdle == SiteIdle /\ StripeIdle /\ LeadIdle /\ ThemeIdle

\* The site is built: content loaded, sidebar resolved, links followed.
InitSite == SiteInit /\ StripeIdle /\ LeadIdle /\ ThemeIdle /\ MailIdle /\ AuthIdle /\ GuardIdle
SpecSite == InitSite /\ [][SiteNext]_vars

\* The Stripe routes of the API reference or of the payments guide serve requests.
InitStripe == SiteIdle /\ StripeInit /\ LeadIdle /\ ThemeIdle /\ MailIdle /\ AuthIdle /\ GuardIdle
SpecStripe == InitStripe /\ [][StripeNext]_vars

\* The lead route of the API reference or of the emails guide serves requests.
InitLead == SiteIdle /\ StripeIdle /\ LeadInit /\ ThemeIdle /\ MailIdle /\ AuthIdle /\ GuardIdle
SpecLead == InitLead /\ [][LeadNext]_vars

\* The theme controls are clicked.
InitTheme == SiteIdle /\ StripeIdle /\ LeadIdle /\ ThemeInit /\ MailIdle /\ AuthIdle /\ GuardIdle
SpecTheme == InitTheme /\ [][ThemeNext]_vars

\* sendEmailWithRetry is called once; the fair specification lets every
\* sendEmail call settle and every timer fire.
InitRetry == AppsIdle /\ RetryInit /\ TestIdle /\ QueueIdle /\ AuthIdle /\ GuardIdle
SpecRetry == InitRetry /\ [][RetryNext]_vars
FairSpecRetry == SpecRetry /\ WF_vars(RetryNext)

\* The email test route serves requests.
InitTest == AppsIdle /\ RetryIdle /\ TestInit /\ QueueIdle /\ AuthIdle /\ GuardIdle
SpecTest == InitTest /\ [][TestNext]_vars

\* Emails are queued while the rate limiter processes its queue; the fair
\* specification lets every email function settle and every timer fire.
InitQueue == AppsIdle /\ RetryIdle /\ TestIdle /\ QueueInit /\ AuthIdle /\ GuardIdle
SpecQueue == InitQueue /\ [][QueueNext]_vars
FairSpecQueue == SpecQueue /\ WF_vars(EmailFnSettles) /\ WF_vars(RateLimitElapses)

\* Users sign up, are deleted, and issue statements on public.profiles.
InitAuth == AppsIdle /\ MailIdle /\ AuthInit /\ GuardIdle
SpecAuth == InitAuth /\ [][AuthNext]_vars

\* A wrapped handler serves requests.
InitWrap == AppsIdle /\ MailIdle /\ AuthIdle /\ WrapInit /\ HookIdle /\ PageIdle
SpecWrap == InitWrap /\ [][WrapNext]_vars

\* A component calls handleAsync and the calls settle.
InitHook == AppsIdle /\ MailIdle /\ AuthIdle /\ WrapIdle /\ HookInit /\ PageIdle
SpecHook == InitHook /\ [][HookNext]_vars

\* The protected page is requested.
InitPage == AppsIdle /\ MailIdle /\ AuthIdle /\ WrapIdle /\ HookIdle /\ PageInit
SpecPage == InitPage /\ [][PageNext]_vars

Init == SiteInit /\ StripeInit /\ LeadInit /\ ThemeInit /\ RetryInit /\ TestInit /\ QueueInit /\ AuthInit
          /\ WrapInit /\ HookInit /\ PageInit
Next == SiteNext \/ StripeNext \/ LeadNext \/ ThemeNext \/ RetryNext \/ TestNext \/ QueueNext \/ AuthNext
          \/ WrapNext \/ HookNext \/ PageNext
Spec == Init /\ [][Next]_vars

(***************************************************************************)
(* Properties                                                              *)
(***************************************************************************)

WebhookRoute == "/api/webhook/stripe"

C4_SidebarWellFormed ==
    /\ \A i \in 1..Len(visited) :
        LET e == visited[i] IN
        /\ "label" \in DOMAIN e
        /\ e.label # ""
        /\ IsGroup(e) # IsLeaf(e)
        /\ IsGroup(e) => DOMAIN e.items = 1..Len(e.items)
    /\ Len(visited) <= Len(Flatten(sidebar))
    /\ \A i \in 1..Len(visited) : visited[i].label = Flatten(sidebar)[i].label
    /\ sitePhase \in {"links", "done"} => Len(visited) = Len(Flatten(sidebar))

\* C4 witness: the walk has visited every group and every leaf.
C4_SidebarWalked ==
    /\ sitePhase = "links"
    /\ stack = <<>>
    /\ \E i \in 1..Len(visited) : IsGroup(visited[i])
    /\ \E i \in 1..Len(visited) : IsLeaf(visited[i]) /\ visited[i].slug = "reference/api"

C6_KeyEventsHandled ==
    ( /\ app = "reference"
      /\ request.route = WebhookRoute
      /\ request.signatureValid
      /\ request.type \in KeyEventsHandled )
    => branch = request.type

\* C7: in both webhook handlers a request whose signature verification fails is
\* answered 400 and reads and writes nothing in the database; a database call is
\* made only for a request whose constructEvent succeeded.
C7_UnverifiedWebhookTouchesNothing ==
    [][ (request'.route = WebhookRoute /\ ~request'.signatureValid)
            => /\ response'.status = 400
               /\ dbOps' = <<>>
               /\ profiles' = profiles
               /\ subscriptions' = subscriptions ]_vars

\* C7 witness: a webhook with a bad signature was rejected while a profile held
\* access granted by an earlier, verified event.
C7_RejectedWebhook ==
    /\ app = "reference"
    /\ request.route = WebhookRoute
    /\ ~request.signatureValid
    /\ response.status = 400
    /\ \E u \in Users : profiles[u].has_access

\* C8: for a request to a checkout-creation route with no authenticated user, no
\* Stripe checkout session is created and no checkout URL is returned.
C8_CheckoutRequiresAuthentication ==
    ( /\ request.route \in {"/api/stripe/create-checkout", "/api/checkout"}
      /\ ~request.authenticated )
    => /\ \A i \in 1..Len(stripeCalls) :
            ~(stripeCalls[i].call = "checkout.sessions.create" /\ stripeCalls[i].ok)
       /\ "url" \in DOMAIN response.body => response.body.url = Null

\* C9: POST /api/lead with a non-empty email and no error raised answers with
\* success: true; with a missing or empty email it answers 400 'Email is required'
\* and has no side effect.
C9_LeadResponds ==
    leadRequest.route = "/api/lead" =>
        /\ (~Falsy(leadRequest.email) /\ leadResponse.status = 200)
              => /\ "success" \in DOMAIN leadResponse.body
                 /\ leadResponse.body.success
        /\ Falsy(leadRequest.email)
              => /\ leadResponse.status = 400
                 /\ leadResponse.body.error = "Email is required"
                 /\ leadEffects = <<>>

\* The theme before the i-th click.
ThemeBefore(i) == IF i = 1 THEN initialTheme ELSE history[i - 1].theme

\* C10: ThemeToggle cycles light -> dark -> system -> light: from one of these
\* three themes, three clicks return to the starting theme and visit each of the
\* three once; from any other theme the first click sets light.
C10_ToggleCycles ==
    /\ \A i \in 1..Len(history) :
        history[i].control = "ThemeToggle" =>
            /\ ThemeBefore(i) = "light" => history[i].theme = "dark"
            /\ ThemeBefore(i) = "dark" => history[i].theme = "system"
            /\ ThemeBefore(i) = "system" => history[i].theme = "light"
            /\ ThemeBefore(i) \notin ConfigThemes => history[i].theme = "light"
    /\ \A i \in 1..(Len(history) - 2) :
        ( /\ \A j \in i..(i + 2) : history[j].control = "ThemeToggle"
          /\ ThemeBefore(i) \in ConfigThemes )
        => /\ history[i + 2].theme = ThemeBefore(i)
           /\ {history[j].theme : j \in i..(i + 2)} = ConfigThemes
    /\ history # <<>> => theme = history[Len(history)].theme

\* C10 witness: three clicks on ThemeToggle, starting from light, are back at light.
C10_ThreeClicksFromLight ==
    /\ initialTheme = "light"
    /\ Len(history) = 3
    /\ \A j \in 1..3 : history[j].control = "ThemeToggle"
    /\ theme = "light"

\* C11: within one run of processQueue, an email function is started only after
\* a wait of 100 ms has elapsed since the previous one ended, whether that one
\* was fulfilled or rejected.
C11_WaitBetweenEmails ==
    \A i \in 2..Len(queueLog) :
        (queueLog[i].ev = "start" /\ queueLog[i - 1].ev # "return")
            => (queueLog[i - 1].ev = "wait" /\ queueLog[i - 1].ms = 100)

\* The waits of retryLog, in order.
RetryWaits == SelectSeq(retryLog, LAMBDA x : x.kind = "wait")

\* C12: a wait follows the k-th failed attempt exactly when k < maxRetries, it
\* lasts 1000 * 2^k ms and is followed by attempt k + 1; every wait is twice
\* the previous one; nothing follows a success or the last failed attempt.
C12_ExponentialBackoff ==
    /\ \A i \in 1..Len(retryLog) :
        LET x == retryLog[i] IN
        IF x.kind = "wait"
        THEN /\ i > 1
             /\ retryLog[i - 1].kind = "sendEmail"
             /\ ~retryLog[i - 1].ok
             /\ retryLog[i - 1].attempt < maxRetries
             /\ x.ms = 1000 * 2^(retryLog[i - 1].attempt)
             /\ i < Len(retryLog) =>
                    /\ retryLog[i + 1].kind = "sendEmail"
                    /\ retryLog[i + 1].attempt = retryLog[i - 1].attempt + 1
             /\ i = Len(retryLog) => retryPc = "calling"
        ELSE /\ x.ok => (i = Len(retryLog) /\ retryPc = "returned")
             /\ (~x.ok /\ x.attempt >= maxRetries) => (i = Len(retryLog) /\ retryPc = "thrown")
             /\ (~x.ok /\ x.attempt < maxRetries) =>
                    IF i = Len(retryLog) THEN retryPc = "waiting" ELSE retryLog[i + 1].kind = "wait"
    /\ \A j \in 2..Len(RetryWaits) : RetryWaits[j].ms = 2 * RetryWaits[j - 1].ms

\* C12 witness: three attempts have failed and the waits of 2000 ms and 4000 ms
\* have elapsed between them.
C12_TwoWaitsElapsed ==
    /\ retryPc = "thrown"
    /\ Len(RetryWaits) >= 2
    /\ RetryWaits[1].ms = 2000
    /\ RetryWaits[2].ms = 4000

\* Whether the last request to the test route names an email and a known type.
TestRequestSendable ==
    /\ testRequest.email \notin {Undefined, ""}
    /\ testRequest.type \in {"welcome", "magic-link"}

\* C13: outside development every request to /api/email/test is answered 403
\* and sends nothing; in development an email is sent only for a non-empty
\* email and a type of 'welcome' or 'magic-link', and every other request is
\* answered 400 and sends nothing.
C13_TestRouteDevelopmentOnly ==
    testResponse.status # 0 =>
        /\ nodeEnv # "development" => (testResponse.status = 403 /\ testSent = <<>>)
        /\ nodeEnv = "development" =>
            /\ testSent # <<>> => TestRequestSendable
            /\ ~TestRequestSendable => (testResponse.status = 400 /\ testSent = <<>>)

\* C13 witness: in development, a request with an email and an unknown type was
\* answered 400 and sent nothing.
C13_UnknownTypeRefused ==
    /\ nodeEnv = "development"
    /\ testRequest.email = "a@example.com"
    /\ testRequest.type = "newsletter"
    /\ testResponse.status = 400
    /\ testSent = <<>>

\* C14: public.profiles holds exactly one row for every user of auth.users and
\* no row for any other id, and the row a sign-up has just created has
\* has_access = false.
C14_ProfilePerUser ==
    /\ \A u \in authUsers : Cardinality({r \in publicProfiles : r.id = u}) = 1
    /\ \A r \in publicProfiles : r.id \in authUsers
    /\ rlsRequest.op = "signup" =>
          \A r \in publicProfiles : r.id = rlsRequest.target => ~r.has_access

\* C14 witness: two users signed up and one of them was then deleted.
C14_SignedUpAndDeleted ==
    /\ rlsRequest.op = "deleteUser"
    /\ Cardinality(authUsers) = 1
    /\ Cardinality(rlsBefore) = 2

\* The rows of a table that belong to a user.
OwnRows(uid, table) == {r \in table : r.id = uid}

\* C15: a select, update or insert issued as U returns and changes rows of U
\* only, and returns what it would return if the table held no row of any
\* other user.
C15_OwnRowOnly ==
    rlsRequest.op \in {"select", "update", "insert"} =>
        LET uid == rlsRequest.uid
            alone == RlsExec(rlsRequest, authUsers \cap {uid}, OwnRows(uid, rlsBefore)) IN
        /\ \A r \in rlsResult.rows : r.id = uid
        /\ publicProfiles \ OwnRows(uid, publicProfiles) = rlsBefore \ OwnRows(uid, rlsBefore)
        /\ rlsResult = [error |-> alone.error, rows |-> alone.rows]
        /\ OwnRows(uid, publicProfiles) = alone.table

\* C15 witness: with the profiles of two users in the table, one of them
\* updated every row the policies let them reach, and a row changed.
C15_UpdateWithoutFilter ==
    /\ rlsRequest.op = "update"
    /\ rlsRequest.uid = "u1"
    /\ rlsRequest.target = "*"
    /\ Cardinality(rlsBefore) = 2
    /\ publicProfiles # rlsBefore

\* C16: when processing a signature-verified Stripe event throws, the webhook
\* route answers 500 with an error body.
C16_WebhookThrowAnswers500 ==
    (request.route = WebhookRoute /\ thrown) =>
        (response.status = 500 /\ "error" \in DOMAIN response.body)

\* The email of the request being answered is held by a row already.
AlreadyStored == \E i \in 1..Len(leads) : leads[i] = leadRequest'.email

\* C17: no two rows of leads hold the same email, and a POST /api/leads whose
\* email a row already holds is answered 409 EMAIL_EXISTS and changes nothing.
C17_LeadEmailsUnique ==
    [][/\ \A i, j \in 1..Len(leads') : leads'[i] = leads'[j] => i = j
       /\ (leadRequest'.route = "/api/leads" /\ AlreadyStored) =>
            /\ leads' = leads
            /\ leadResponse'.status = 409
            /\ leadResponse'.body.code = "EMAIL_EXISTS"]_vars

\* C17 amended: no two rows of leads hold the same email; a POST /api/leads
\* whose email a row already holds changes nothing, and it is answered 409
\* EMAIL_EXISTS when the insert fails on the unique constraint and 500
\* INTERNAL_ERROR when the insert fails with another database error.
C17_LeadEmailsUniqueOrDatabaseError ==
    [][/\ \A i, j \in 1..Len(leads') : leads'[i] = leads'[j] => i = j
       /\ (leadRequest'.route = "/api/leads" /\ AlreadyStored) =>
            /\ leads' = leads
            /\ Len(leadEffects') = 1
            /\ ~leadEffects'[1].ok
            /\ IF leadEffects'[1].code = "23505"
               THEN leadResponse'.status = 409 /\ leadResponse'.body.code = "EMAIL_EXISTS"
               ELSE leadResponse'.status = 500 /\ leadResponse'.body.code = "INTERNAL_ERROR"]_vars

\* C17 witness: with two leads stored, the email of the first was posted again
\* and refused.
C17_DuplicateRefused ==
    /\ leadRequest.route = "/api/leads"
    /\ Len(leads) = 2
    /\ leadRequest.email = leads[1]
    /\ leadResponse.status = 409

\* The sendEmail calls of retryLog, in order.
RetryCalls == SelectSeq(retryLog, LAMBDA x : x.kind = "sendEmail")

\* C18: for maxRetries >= 1, sendEmail is called at most maxRetries times; a
\* call that returned did so with the result of its one successful call, the
\* last one; a call that threw made maxRetries calls, all failed, and threw the
\* error of the last one; and the call returns or throws in the end.
C18_RetryBoundedAndTerminates ==
    /\ [](maxRetries >= 1 =>
            /\ Len(RetryCalls) <= maxRetries
            /\ \A i \in 1..Len(RetryCalls) :
                /\ RetryCalls[i].attempt = i
                /\ RetryCalls[i].ok => i = Len(RetryCalls)
            /\ retryPc = "returned" =>
                /\ Len(RetryCalls) >= 1
                /\ RetryCalls[Len(RetryCalls)].ok
                /\ retryResult = RetryCalls[Len(RetryCalls)].value
            /\ retryPc = "thrown" =>
                /\ Len(RetryCalls) = maxRetries
                /\ \A i \in 1..Len(RetryCalls) : ~RetryCalls[i].ok
                /\ retryResult = RetryCalls[maxRetries].value)
    /\ <>(retryPc \in {"returned", "thrown"})

\* C18 witness: a call with maxRetries = 3 succeeded at its third attempt.
C18_ThirdAttemptSucceeded ==
    /\ maxRetries = 3
    /\ retryPc = "returned"
    /\ Len(RetryCalls) = 3
    /\ retryResult = "result_1"

\* The email functions started so far, in order, and those that have not ended.
StartedFns == SelectSeq(queueLog, LAMBDA x : x.ev = "start")
Executing ==
    {f \in 1..queued :
        /\ \E i \in 1..Len(queueLog) : queueLog[i] = Started(f)
        /\ ~\E i \in 1..Len(queueLog) : queueLog[i].ev = "end" /\ queueLog[i].fn = f}

\* C19: at most one processQueue call is active, at most one email function is
\* executing, and the functions are started in the order they were queued.
C19_OneLoopFifo ==
    /\ Cardinality(loops) <= 1
    /\ Cardinality(Executing) <= 1
    /\ Len(StartedFns) <= queued
    /\ \A i \in 1..Len(StartedFns) : StartedFns[i].fn = i

\* C19 witness: two emails were queued while the first one was executing, and
\* the second one was started after the first had ended.
C19_QueuedWhileProcessing ==
    /\ isProcessing
    /\ queued = 3
    /\ Len(emailQueue) = 1
    /\ Executing = {2}

\* C20: every email function passed to queueEmail is called, and no more than
\* once, also when functions queued before it were rejected.
C20_EveryQueuedEmailRuns ==
    /\ [](\A f \in 1..MaxQueued :
            Cardinality({i \in 1..Len(queueLog) : queueLog[i] = Started(f)}) <= 1)
    /\ \A f \in 1..MaxQueued :
            (queued >= f) ~> (\E i \in 1..Len(queueLog) : queueLog[i] = Started(f))

\* C20 witness: the first email function was rejected and the second one,
\* queued behind it, was called.
C20_RunsAfterRejection ==
    /\ \E i \in 1..Len(queueLog) : queueLog[i] = Ended(1, FALSE)
    /\ \E i \in 1..Len(queueLog) : queueLog[i] = Started(2)
    /\ emailQueue # <<>>

\* C21: at every await point and between calls, isProcessing = false implies
\* that emailQueue is empty.
C21_NoStrandedEmail ==
    ~isProcessing => emailQueue = <<>>

\* C21 witness: an email was queued while the processor waited out the rate
\* limit after its last item, and the processor then took it and finished.
C21_QueuedWhileFinishing ==
    /\ ~isProcessing
    /\ queued = 2
    /\ Len(queueLog) >= 5
    /\ queueLog[3] = Elapsed(100)
    /\ queueLog[4] = Started(2)

\* The names of the two email functions of the enhanced lead route.
LeadEmailFns == {"sendLeadNotification", "sendLeadWelcomeEmail"}

\* C22: in the enhanced lead route the insert comes first and no email function
\* is called unless it succeeded; a failed insert is answered 500 'Failed to
\* save lead' with no email; the welcome email is sent only after the admin
\* notification succeeded.
C22_SaveNotifyWelcome ==
    (leadApp = "emails" /\ leadEffects # <<>>) =>
        /\ leadEffects[1].call = "insert"
        /\ \A i \in 1..Len(leadEffects) :
            /\ leadEffects[i].call \in LeadEmailFns => (i > 1 /\ leadEffects[1].ok)
            /\ leadEffects[i].call = "sendLeadWelcomeEmail" =>
                  (i = 3 /\ leadEffects[2] = Call("sendLeadNotification", TRUE))
        /\ ~leadEffects[1].ok =>
            /\ Len(leadEffects) = 1
            /\ leadResponse.status = 500
            /\ leadResponse.body.error = "Failed to save lead"

\* C22 witness: a lead was saved, the admin notified and the welcome email sent.
C22_AllThreeStepsRan ==
    /\ leadApp = "emails"
    /\ Len(leadEffects) = 3
    /\ leadEffects[3] = Call("sendLeadWelcomeEmail", TRUE)
    /\ leadResponse.status = 200

\* C23: when an email function fails after the lead was saved, the answer is
\* 500 with the message of the error and the lead stays in the table; the
\* answer has success: true only if the insert and both emails succeeded.
C23_EmailFailureKeepsLead ==
    leadApp = "emails" =>
        /\ (Len(leadEffects) >= 2 /\ ~leadEffects[Len(leadEffects)].ok) =>
            /\ leadResponse.status = 500
            /\ leadResponse.body.error = leadEffects[Len(leadEffects)].message
            /\ Len(leads) >= 1
            /\ leads[Len(leads)] = leadRequest.email
        /\ "success" \in DOMAIN leadResponse.body =>
            /\ leadResponse.body.success
            /\ Len(leadEffects) = 3
            /\ \A i \in 1..3 : leadEffects[i].ok

\* C23 witness: the welcome email failed after the lead was saved and the admin
\* notified.
C23_WelcomeFailed ==
    /\ leadApp = "emails"
    /\ Len(leadEffects) = 3
    /\ leadEffects[3] = Failed("sendLeadWelcomeEmail", "error_2")
    /\ leadResponse.status = 500

CreateCheckoutRoute == "/api/stripe/create-checkout"

\* C24: POST /api/stripe/create-checkout answers 400 'Price ID is required' to
\* a body without priceId, else 400 'Success and cancel URLs are required'
\* without successUrl or cancelUrl, else 400 with the mode message without
\* mode; a 400 comes with no Supabase and no Stripe call, and createCheckout is
\* called only for a body with all four fields.
C24_ValidationOrder ==
    request.route = CreateCheckoutRoute =>
        LET b == request.body
            answers400(message) == response.status = 400 /\ response.body.error = message IN
        /\ ~b.priceId => answers400("Price ID is required")
        /\ (b.priceId /\ (~b.successUrl \/ ~b.cancelUrl)) =>
              answers400("Success and cancel URLs are required")
        /\ (b.priceId /\ b.successUrl /\ b.cancelUrl /\ ~b.mode) =>
              answers400("Mode is required (either \"payment\" for one-time payments or \"subscription\" for recurring subscription)")
        /\ response.status = 400 => (dbOps = <<>> /\ stripeCalls = <<>>)
        /\ stripeCalls # <<>> => (b.priceId /\ b.successUrl /\ b.cancelUrl /\ b.mode)

\* C24 witness: a body with a priceId and neither URL nor mode was answered
\* with the message about the URLs.
C24_UrlsBeforeMode ==
    /\ request.route = CreateCheckoutRoute
    /\ request.body = [priceId |-> TRUE, successUrl |-> FALSE, cancelUrl |-> FALSE, mode |-> FALSE]
    /\ response.status = 400

\* C25: when Stripe refuses the session, createCheckout returns null and POST
\* /api/stripe/create-checkout answers 200 with url = null; the route answers
\* 500 only when its try block threw, before createCheckout was called.
C25_CreateCheckoutNeverThrows ==
    request.route = CreateCheckoutRoute =>
        /\ (\E i \in 1..Len(stripeCalls) : ~stripeCalls[i].ok) =>
              (response.status = 200 /\ response.body.url = Null /\ ~thrown)
        /\ response.status = 500 => (thrown /\ stripeCalls = <<>>)

\* C25 witness: Stripe refused the session of a valid request.
C25_StripeRefused ==
    /\ request.route = CreateCheckoutRoute
    /\ stripeCalls = <<Call("checkout.sessions.create", FALSE)>>
    /\ response.status = 200

\* C26: whatever the inner handler does, the wrapped handler returns a
\* response: when the inner handler throws or rejects, status 500 with
\* success false, code INTERNAL_ERROR and the Error's message ('Internal server
\* error' for a value that is no Error); when it returns, that same response.
C26_WrapperAlwaysAnswers ==
    \A i \in 1..Len(wrapped) :
        LET c == wrapped[i] IN
        /\ c.outer.kind = "returns"
        /\ IF c.inner.kind = "returns"
           THEN c.outer.response = c.inner.response
           ELSE /\ c.outer.response.status = 500
                /\ c.outer.response.body.success = FALSE
                /\ c.outer.response.body.code = "INTERNAL_ERROR"
                /\ c.outer.response.body.message =
                       (IF c.inner.error.isError THEN c.inner.error.message
                        ELSE "Internal server error")

\* C26: a wrapped handler has served a request whose promise rejected with a
\* value that is no Error, and one whose inner handler returned a 409.
C26_RejectedAndReturned ==
    /\ \E i \in 1..Len(wrapped) :
        /\ wrapped[i].inner.kind = "rejects"
        /\ ~wrapped[i].inner.error.isError
        /\ wrapped[i].outer.response.body.message = "Internal server error"
    /\ \E i \in 1..Len(wrapped) :
        /\ wrapped[i].inner.kind = "returns"
        /\ wrapped[i].outer.response.status = 409

\* C27: isLoading is true exactly while some asyncFn started through
\* handleAsync is still pending, overlapping calls included: never false while
\* a call is in flight, and false once all calls have settled.
C27_LoadingWhilePending == isLoading <=> (pending # {})

\* C28: in the payments guide, an active row of subscriptions written by
\* handleSubscriptionCreated is what getUserSubscription returns for the user
\* who made the checkout, the user whose profile handleCheckoutCompleted gave
\* the row's customer.
C28_ActiveSubscriptionReturned ==
    app = "guide" =>
        \A u \in Users, s \in DOMAIN subscriptions :
            (/\ subscriptions[s].status = "active"
             /\ SqlEq(profiles[u].stripe_customer_id, subscriptions[s].stripe_customer_id))
                => getUserSubscription(subscriptions, u) = OneRow(subscriptions[s])

\* C29: the customer portal route answers 401 'Authentication required' to a
\* request without a session, having read no profile, and 404 'No customer
\* found' to a session whose profile has no stripe_customer_id; in both cases
\* it creates no portal session.
C29_PortalNeedsSessionAndCustomer ==
    request.route = "/api/customer-portal" =>
        /\ ~request.authenticated =>
            /\ response = Json(401, [error |-> "Authentication required"])
            /\ dbOps = <<Op("getSession", "auth")>>
            /\ stripeCalls = <<>>
        /\ (request.authenticated /\ profiles[request.user].stripe_customer_id = Null) =>
            /\ response = Json(404, [error |-> "No customer found"])
            /\ stripeCalls = <<>>
        /\ stripeCalls # <<>> =>
            /\ request.authenticated
            /\ profiles[request.user].stripe_customer_id # Null

\* C29: a signed-in user whose profile has no stripe_customer_id asked for the
\* portal and was answered 404, another user's profile having one.
C29_NoCustomerFound ==
    /\ request.route = "/api/customer-portal"
    /\ request.authenticated
    /\ profiles[request.user].stripe_customer_id = Null
    /\ \E u \in Users : profiles[u].stripe_customer_id # Null
    /\ response.status = 404

\* C30: ProtectedPage produces its content only for a request whose getSession
\* returned a session; every request without a session ends in the redirect to
\* /login, thrown before any content is produced.
C30_ContentOnlyWithSession ==
    \A i \in 1..Len(pageRequests) :
        LET r == pageRequests[i] IN
        /\ r.produced.kind = "content" => r.session.found
        /\ ~r.session.found =>
            /\ r.produced.kind = "redirect"
            /\ r.produced.to = "/login"
            /\ r.produced.thrown

\* C30: the page has been requested without a session and redirected, and
\* with the session of u1 and rendered with that user's email.
C30_RedirectedAndRendered ==
    /\ \E i \in 1..Len(pageRequests) :
        ~pageRequests[i].session.found /\ pageRequests[i].produced.kind = "redirect"
    /\ \E i \in 1..Len(pageRequests) :
        /\ pageRequests[i].session = SessionOf("u1@example.com")
        /\ pageRequests[i].produced =
               [kind |-> "content",
                html |-> "<div><h1>Protected Content</h1><p>Welcome, u1@example.com!</p></div>"]

====
